---------------------------- MODULE Spec2Model ----------------------------
(***************************************************************************)
(* A model of the goal-planner backend: the start-date correction of the   *)
(* four plan pipelines (planner_service, main_cli, fast, roughs), the JSON *)
(* extraction of the model's text, the structuring of a plan into calendar *)
(* tasks, the calendar insert loops and the CLI turn loops.                *)
(*                                                                         *)
(* Dates are records [y, m, d]; a datetime is a number of minutes          *)
(* (ordinal * 1440 + minutes of the day), so that timedelta arithmetic is  *)
(* integer arithmetic on the proleptic Gregorian ordinal Python uses.      *)
(***************************************************************************)
EXTENDS Integers, Sequences, FiniteSets, TLC

VARIABLES
    today,      \* datetime.date.today() of the run
    program,    \* the program running: "service", "main_cli", "fast" or "roughs"
    op,         \* the operation or handler that ran last ("none" before any)
    inp,        \* the user's input line of the last CLI turn
    req,        \* the caller's arguments of the last call
    resp,       \* the outcome of the last outbound model call
    ret,        \* what the last operation returned, raised or printed
    model_calls,  \* outbound model calls made by the last turn or call
    insert_calls, \* calendar insert calls made by the last turn or call
    running,    \* the prompt loop of the CLI is alive
    history,    \* len(chat.history) of the CLI's chat session
    last_parsed_plan_data,    \* the stored plan JSON, or NoPlanData for None
    last_parsed_plan_details, \* the stored plan details, or NoPlanDetails for {}
    calendar,   \* the events the calendar service holds, in insertion order
    response_text, \* the text handed to the JSON extractor
    extracted,  \* what the JSON extractor returned
    args,       \* the plan or the tasks handed to the last calendar call
    insert_log, \* the insert calls of the last calendar call, in call order
    api_key,    \* the environment holds GOOGLE_API_KEY
    credentials_json, \* the file credentials.json exists
    token_json, \* what token.json holds: "absent", "valid", "expired", "unusable", "malformed"
    google,     \* how Google's services answer: refresh, interactive flow, build
    oauth_calls, \* what _get_oauth_credentials did: refreshes, flows, writes, removes
    startup_error, \* the exception caught at the start of main_api, "pending" before
    planner_service_instance, \* main_api's service object, or "None"
    status_code, \* the HTTP status of the last response of main_api
    preferred_time_str, \* the argument of the preferred-time parser
    parsed_time \* the datetime.time it returned, in minutes of the day

\* what a call or turn reports
io == <<op, inp, req, resp, ret, model_calls, insert_calls>>
\* the JSON extractor's argument and result
json == <<response_text, extracted>>
\* the fields of the CLI object
cli == <<running, history, last_parsed_plan_data, last_parsed_plan_details>>

\* the argument and the insert calls of a direct calendar call
call == <<args, insert_log>>

\* the files and services the construction depends on, and what it did
startup == <<api_key, credentials_json, token_json, google, oauth_calls, startup_error,
             planner_service_instance, status_code>>

\* the preferred-time parser's argument and result
parse == <<preferred_time_str, parsed_time>>

vars == <<today, program, io, cli, calendar, json, call, startup, parse>>

-----------------------------------------------------------------------------
(* Bounds of the model *)

\* first year today is drawn from
BaseYear == 2024
\* number of consecutive years today is drawn from
YearSpan == 1
\* the model's start dates reach this many days before today ...
WindowBack == 31
\* ... and this many days after today
WindowFwd == 2
\* longest learningPlan array
MaxEntries == 3
\* the chat history is followed up to this length
MaxHistory == 6
\* the calendar is followed up to this number of events
MaxCalendar == 4
\* longest content of a string value in the texts given to the extractors
MaxStrLen == 2
\* longest text of arbitrary characters given to the extractors
MaxJunkLen == 3
\* the largest hour and minute a preferred time names
MaxHour == 25
MaxMinute == 61

-----------------------------------------------------------------------------
(* datetime.date: calendar arithmetic *)

IsLeap(y) == (y % 4 = 0) /\ ((y % 100 /= 0) \/ (y % 400 = 0))

DaysInMonth(y, m) ==
    IF m = 2 THEN (IF IsLeap(y) THEN 29 ELSE 28)
    ELSE IF m \in {4, 6, 9, 11} THEN 30 ELSE 31

\* datetime.date(y, m, d) raises ValueError unless this holds
IsValidDate(y, m, d) ==
    /\ y \in 1..9999
    /\ m \in 1..12
    /\ d >= 1
    /\ d <= DaysInMonth(y, m)

MkDate(y, m, d) == [y |-> y, m |-> m, d |-> d]

DaysBeforeYear(y) ==
    (y - 1) * 365 + ((y - 1) \div 4) - ((y - 1) \div 100) + ((y - 1) \div 400)

RECURSIVE DaysBeforeMonth(_, _)
DaysBeforeMonth(y, m) ==
    IF m <= 1 THEN 0 ELSE DaysBeforeMonth(y, m - 1) + DaysInMonth(y, m - 1)

\* date.toordinal(): 0001-01-01 is day 1
toordinal(dt) == DaysBeforeYear(dt.y) + DaysBeforeMonth(dt.y, dt.m) + dt.d

\* the years a date of the model can fall in
ModelYears == (BaseYear - 1)..(BaseYear + YearSpan + 1)

\* date.fromordinal(n)
fromordinal(n) ==
    LET y == CHOOSE yy \in ModelYears :
                 DaysBeforeYear(yy) < n /\ n <= DaysBeforeYear(yy + 1)
        r == n - DaysBeforeYear(y)
        m == CHOOSE mm \in 1..12 :
                 DaysBeforeMonth(y, mm) < r
                 /\ r <= DaysBeforeMonth(y, mm) + DaysInMonth(y, mm)
    IN  MkDate(y, m, r - DaysBeforeMonth(y, m))

\* date.weekday(): Monday is 0, Sunday is 6
weekday(dt) == (toordinal(dt) + 6) % 7

\* date + datetime.timedelta(days=n)
AddDays(dt, n) == fromordinal(toordinal(dt) + n)

\* date < date
DateLt(a, b) == toordinal(a) < toordinal(b)

\* every day of the years today is drawn from
Days ==
    { dt \in [y : BaseYear..(BaseYear + YearSpan - 1), m : 1..12, d : 1..31] :
        IsValidDate(dt.y, dt.m, dt.d) }

-----------------------------------------------------------------------------
(* JSON values of a plan, as json.loads delivers them *)

\* a start_date value: a "Y-M-D" text (kind "ymd", whether or not the day
\* exists), another text, null, or the key missing
YmdStr(y, m, d) == [kind |-> "ymd", y |-> y, m |-> m, d |-> d]
OtherStr == [kind |-> "text", y |-> 0, m |-> 0, d |-> 0]
NullStr == [kind |-> "null", y |-> 0, m |-> 0, d |-> 0]
\* a number where the text is expected
NumStr == [kind |-> "num", y |-> 0, m |-> 0, d |-> 0]
AbsentStr == [kind |-> "absent", y |-> 0, m |-> 0, d |-> 0]

\* date.strftime('%Y-%m-%d')
strftime(dt) == YmdStr(dt.y, dt.m, dt.d)

\* datetime.datetime.strptime(s, '%Y-%m-%d').date(): the date, or the
\* exception raised (TypeError for a non-string, ValueError for a text that
\* is no date of the calendar)
strptime(s) ==
    IF s.kind = "ymd" /\ IsValidDate(s.y, s.m, s.d)
    THEN [ok |-> TRUE, date |-> MkDate(s.y, s.m, s.d), exc |-> "none"]
    ELSE [ok |-> FALSE, date |-> MkDate(0, 0, 0),
          exc |-> IF s.kind \in {"null", "absent", "num"} THEN "TypeError"
                  ELSE "ValueError"]

\* a JSON number, a non-numeric text, null, or the key missing
Num(n) == [k |-> "num", n |-> n]
TextNum == [k |-> "text", n |-> 0]
NullNum == [k |-> "null", n |-> 0]
AbsentNum == [k |-> "absent", n |-> 0]

\* dict.get(key, default) for a number-valued key
GetNum(v, default) == IF v.k = "absent" THEN default ELSE v

\* float(v) / int(v): the number, or the exception raised
ToNumber(v) ==
    CASE v.k = "num" -> [ok |-> TRUE, n |-> v.n, exc |-> "none"]
      [] v.k = "text" -> [ok |-> FALSE, n |-> 0, exc |-> "ValueError"]
      [] OTHER -> [ok |-> FALSE, n |-> 0, exc |-> "TypeError"]

\* a preferred_time value, seen as the regular expressions of the parsers
\* see it: kind "str" for a text, with hr the first run of one or two digits
\* (-1: the text has no digit), sep the ':' or '.' that follows it and mi the
\* digits after sep (sep "" and mi -1: none), ampm the am/pm that follows
\* ("" when none) and kw the time-of-day word in the text
PrefTime(kind, hr, sep, mi, ampm, kw) ==
    [kind |-> kind, hr |-> hr, sep |-> sep, mi |-> mi, ampm |-> ampm, kw |-> kw]
NullTime == PrefTime("null", -1, "", -1, "", "none")
WordTime(kw) == PrefTime("str", -1, "", -1, "", kw)
ClockTime(hr, sep, mi, ampm) == PrefTime("str", hr, sep, mi, ampm, "none")

\* an entry of learningPlan: an object (kind "dict") or anything else
Entry(kind, dayNumber, date, est) ==
    [kind |-> kind, dayNumber |-> dayNumber, date |-> date, est |-> est,
     projects |-> "str"]

\* the entry e with projects_exercises p: a text ("str"), null, a list
\* ("list"), or the key missing ("absent")
WithProjects(e, p) == [e EXCEPT !.projects = p]
NonDictEntry == Entry("nondict", AbsentNum, AbsentStr, AbsentNum)

\* the learningPlan value: kind "list" with its items, or a non-list value
\* ("null", "num", "dict"/"text" non-empty, "emptydict"), or "absent"
PlanList(items) == [kind |-> "list", items |-> items]
NonList(kind) == [kind |-> kind, items |-> <<>>]

\* the outcome of the model call: an exception, or a response text in which
\* the extractor finds no JSON object (outcome "text"), or finds the object
\* whose keys follow (outcome "json")
\* (skill is TRUE when the object has a non-empty "skill")
Response(outcome, blocked, skill, duration_days, start_date, preferred_time, daily_hours, learningPlan) ==
    [outcome |-> outcome, blocked |-> blocked, skill |-> skill,
     duration_days |-> duration_days,
     start_date |-> start_date, preferred_time |-> preferred_time,
     daily_hours |-> daily_hours, learningPlan |-> learningPlan]
NoPlan(outcome, blocked) ==
    Response(outcome, blocked, FALSE, AbsentNum, AbsentStr, NullTime, AbsentNum, NonList("absent"))

-----------------------------------------------------------------------------
(* Response texts and json.loads *)

(* A text is a sequence of characters, one-character strings, with two      *)
(* multi-character units: "J" stands for ```json and "T" for ```; "q" is    *)
(* the double quote, "n" a newline, " " a blank, "a" a letter, "1" a digit. *)

IsWs(c) == c \in {" ", "n"}

\* the index of the first character at or after i that is no whitespace
\* (Len(s) + 1 when there is none): what \s* consumes
RECURSIVE SkipWs(_, _)
SkipWs(s, i) == IF i <= Len(s) /\ IsWs(s[i]) THEN SkipWs(s, i + 1) ELSE i

At(s, i) == IF 1 <= i /\ i <= Len(s) THEN s[i] ELSE "eof"

\* the index after the string literal that opens at i, 0 when it is not
\* closed or holds a control character (json.loads is strict)
RECURSIVE ParseString(_, _)
ParseString(s, i) ==
    IF i + 1 > Len(s) \/ s[i + 1] = "n" THEN 0
    ELSE IF s[i + 1] = "q" THEN i + 2
    ELSE ParseString(s, i + 1)

RECURSIVE ParseNumber(_, _)
ParseNumber(s, i) == IF At(s, i) = "1" THEN ParseNumber(s, i + 1) ELSE i

\* the JSON decoder: the index after the value that starts at i, 0 when
\* there is no value there
RECURSIVE ParseValue(_, _), ParseElements(_, _), ParseMembers(_, _)
ParseValue(s, i) ==
    CASE At(s, i) = "q" -> ParseString(s, i)
      [] At(s, i) = "1" -> ParseNumber(s, i)
      [] At(s, i) = "[" ->
            IF At(s, SkipWs(s, i + 1)) = "]" THEN SkipWs(s, i + 1) + 1
            ELSE ParseElements(s, SkipWs(s, i + 1))
      [] At(s, i) = "{" ->
            IF At(s, SkipWs(s, i + 1)) = "}" THEN SkipWs(s, i + 1) + 1
            ELSE ParseMembers(s, SkipWs(s, i + 1))
      [] OTHER -> 0

ParseElements(s, i) ==
    LET v == ParseValue(s, i)
        k == SkipWs(s, v)
    IN  IF v = 0 THEN 0
        ELSE IF At(s, k) = "," THEN ParseElements(s, SkipWs(s, k + 1))
        ELSE IF At(s, k) = "]" THEN k + 1
        ELSE 0

ParseMembers(s, i) ==
    LET key == IF At(s, i) = "q" THEN ParseString(s, i) ELSE 0
        c == SkipWs(s, key)
        v == ParseValue(s, SkipWs(s, c + 1))
        k == SkipWs(s, v)
    IN  IF key = 0 \/ At(s, c) /= ":" \/ v = 0 THEN 0
        ELSE IF At(s, k) = "," THEN ParseMembers(s, SkipWs(s, k + 1))
        ELSE IF At(s, k) = "}" THEN k + 1
        ELSE 0

\* json.loads(s): "dict" for an object, "other" for another value,
\* "JSONDecodeError" when s is no JSON document
json_loads(s) ==
    LET i == SkipWs(s, 1)
        e == ParseValue(s, i)
    IN  IF e = 0 \/ SkipWs(s, e) /= Len(s) + 1 THEN "JSONDecodeError"
        ELSE IF s[i] = "{" THEN "dict" ELSE "other"

\* str.find(c) and str.rfind(c), 0 for -1
Find(s, c) ==
    IF \E i \in 1..Len(s) : s[i] = c
    THEN CHOOSE i \in 1..Len(s) : s[i] = c /\ \A j \in 1..(i - 1) : s[j] /= c
    ELSE 0
RFind(s, c) ==
    IF \E i \in 1..Len(s) : s[i] = c
    THEN CHOOSE i \in 1..Len(s) : s[i] = c /\ \A j \in (i + 1)..Len(s) : s[j] /= c
    ELSE 0

\* s[a:b+1] with 1-based a and b
Slice(s, a, b) == IF a <= b THEN SubSeq(s, a, b) ELSE <<>>

\* re.sub(r',\s*(C)', r'\1', s) from index i on, C one of the closers
RECURSIVE StripCommasBefore(_, _, _)
StripCommasBefore(s, i, closers) ==
    IF i > Len(s) THEN <<>>
    ELSE IF s[i] = "," /\ At(s, SkipWs(s, i + 1)) \in closers
    THEN <<s[SkipWs(s, i + 1)]>> \o StripCommasBefore(s, SkipWs(s, i + 1) + 1, closers)
    ELSE <<s[i]>> \o StripCommasBefore(s, i + 1, closers)

\* re.sub(r'//.*', '', s) from index i on: '.' stops at a newline
RECURSIVE SkipLine(_, _)
SkipLine(s, i) == IF i <= Len(s) /\ s[i] /= "n" THEN SkipLine(s, i + 1) ELSE i

RECURSIVE StripComments(_, _)
StripComments(s, i) ==
    IF i > Len(s) THEN <<>>
    ELSE IF s[i] = "/" /\ At(s, i + 1) = "/"
    THEN StripComments(s, SkipLine(s, i))
    ELSE <<s[i]>> \o StripComments(s, i + 1)

\* what an extractor returns: kind "dict" or "None", with the text it gave
\* json.loads (empty when it gave none)
Extracted(kind, json_str) == [kind |-> kind, json_str |-> json_str]
NotExtracted == Extracted("none", <<>>)

-----------------------------------------------------------------------------
(* planner_service.py and main_cli.py: _extract_valid_json_from_response *)

\* the matches of ```json\s*(\{.*?\})\s*``` that start at the "J" of index
\* i: the ends e of group 1 (the closing fence matches ``` wherever it
\* stands, also at the head of another ```json)
FenceEnds(s, i) ==
    LET b == SkipWs(s, i + 1)
    IN  IF At(s, i) = "J" /\ At(s, b) = "{"
        THEN { e \in (b + 1)..Len(s) :
                 s[e] = "}" /\ At(s, SkipWs(s, e + 1)) \in {"T", "J"} }
        ELSE {}

\* re.search: group 1 of the leftmost match, the shortest at that start
FenceSearch(s) ==
    LET starts == { i \in 1..Len(s) : FenceEnds(s, i) /= {} }
    IN  IF starts = {} THEN [found |-> FALSE, group |-> <<>>]
        ELSE LET i == CHOOSE x \in starts : \A y \in starts : x <= y
                 e == CHOOSE x \in FenceEnds(s, i) : \A y \in FenceEnds(s, i) : x <= y
             IN  [found |-> TRUE, group |-> SubSeq(s, SkipWs(s, i + 1), e)]

\* _extract_valid_json_from_response
ExtractFromResponse(text) ==
    LET m == FenceSearch(text)
        start_index == Find(text, "{")
        end_index == RFind(text, "}")
        json_str == IF m.found THEN m.group ELSE Slice(text, start_index, end_index)
        cleaned == StripCommasBefore(json_str, 1, {"}", "]"})
    IN  IF ~m.found /\ ~(start_index /= 0 /\ end_index /= 0 /\ end_index > start_index)
        THEN Extracted("None", <<>>)
        ELSE IF json_loads(cleaned) = "JSONDecodeError"
        THEN Extracted("None", cleaned)
        ELSE Extracted("dict", cleaned)

ExtractValidJsonFromResponse ==
    /\ program \in {"service", "main_cli"}
    /\ op' = "extract"
    /\ extracted' = ExtractFromResponse(response_text)
    /\ UNCHANGED <<today, program, startup, call, inp, req, resp, ret, model_calls, insert_calls,
                   cli, calendar, response_text, parse>>

\* self.last_parsed_plan_data: the plan JSON as stored
PlanData(start_date, items) == [set |-> TRUE, start_date |-> start_date, items |-> items]
NoPlanData == [set |-> FALSE, start_date |-> AbsentStr, items |-> <<>>]

\* self.last_parsed_plan_details
PlanDetails(start_date, preferred_time, daily_hours) ==
    [set |-> TRUE, start_date |-> start_date, preferred_time |-> preferred_time,
     daily_hours |-> daily_hours]
NoPlanDetails ==
    [set |-> FALSE, start_date |-> MkDate(0, 0, 0), preferred_time |-> NullTime,
     daily_hours |-> 0]

\* the argument of a direct calendar call: the plan and its details
\* (create_calendar_events) or the tasks (add_plan_to_calendar)
CallArgs(data, details, tasks) == [data |-> data, details |-> details, tasks |-> tasks]
NoArgs == CallArgs(NoPlanData, NoPlanDetails, <<>>)

\* one insert call: the position of its entry in the list, and whether the
\* calendar accepted it
Attempt(k, ok) == [k |-> k, ok |-> ok]

\* an event body handed to events().insert: its start and end, in minutes
Event(start, end) == [start |-> start, end |-> end]

\* the result of an insert loop: the events inserted, the insert calls made,
\* and whether an exception left the loop
Inserted(events, log, raised) == [events |-> events, log |-> log, raised |-> raised]

-----------------------------------------------------------------------------
(* planner_service.py: LearningPlannerService *)

\* datetime.time(hours, minutes) as minutes of the day
TimeOfDay(hours, minutes) == hours * 60 + minutes

\* a parser that does not check the range of what it read
ParsePreferredTimeUnchecked(t) ==
    IF t.kind /= "str" THEN TimeOfDay(9, 0)
    ELSE IF t.hr >= 0 THEN
        TimeOfDay(IF t.ampm = "pm" /\ 1 <= t.hr /\ t.hr < 12 THEN t.hr + 12
                  ELSE IF t.ampm = "am" /\ t.hr = 12 THEN 0
                  ELSE t.hr,
                  IF t.mi >= 0 THEN t.mi ELSE 0)
    ELSE IF t.kw = "morning" THEN TimeOfDay(9, 0)
    ELSE IF t.kw = "afternoon" THEN TimeOfDay(14, 0)
    ELSE IF t.kw \in {"evening", "night"} THEN TimeOfDay(19, 0)
    ELSE TimeOfDay(9, 0)

\* a parser that looks for a keyword before it looks for a number
ParsePreferredTimeKeywordFirst(t) ==
    IF t.kind /= "str" THEN TimeOfDay(9, 0)
    ELSE IF t.kw = "morning" THEN TimeOfDay(9, 0)
    ELSE IF t.kw = "afternoon" THEN TimeOfDay(14, 0)
    ELSE IF t.kw \in {"evening", "night"} THEN TimeOfDay(19, 0)
    ELSE IF t.hr >= 0 THEN
        LET minutes == IF t.mi >= 0 THEN t.mi ELSE 0
            hours == IF t.ampm = "pm" /\ 1 <= t.hr /\ t.hr < 12 THEN t.hr + 12
                     ELSE IF t.ampm = "am" /\ t.hr = 12 THEN 0
                     ELSE t.hr
        IN  IF ~(0 <= hours /\ hours <= 23 /\ 0 <= minutes /\ minutes <= 59)
            THEN TimeOfDay(9, 0)
            ELSE TimeOfDay(hours, minutes)
    ELSE TimeOfDay(9, 0)

\* _parse_preferred_time_to_datetime_time
ParsePreferredTime(t) ==
    IF t.kind /= "str" THEN TimeOfDay(9, 0)
    ELSE IF t.hr >= 0 THEN
        LET minutes == IF t.mi >= 0 THEN t.mi ELSE 0
            hours == IF t.ampm = "pm" /\ 1 <= t.hr /\ t.hr < 12 THEN t.hr + 12
                     ELSE IF t.ampm = "am" /\ t.hr = 12 THEN 0
                     ELSE t.hr
        IN  IF ~(0 <= hours /\ hours <= 23 /\ 0 <= minutes /\ minutes <= 59)
            THEN TimeOfDay(9, 0)
            ELSE TimeOfDay(hours, minutes)
    ELSE IF t.kw = "morning" THEN TimeOfDay(9, 0)
    ELSE IF t.kw = "afternoon" THEN TimeOfDay(14, 0)
    ELSE IF t.kw \in {"evening", "night"} THEN TimeOfDay(19, 0)
    ELSE TimeOfDay(9, 0)

\* the value of parsed_time before the parser is called
NotParsed == -1

\* _parse_preferred_time_to_datetime_time of the service and of main_cli,
\* called once
ParsePreferredTimeCall ==
    /\ program \in {"service", "main_cli"}
    /\ parsed_time' = ParsePreferredTime(preferred_time_str)
    /\ op' = "_parse_preferred_time_to_datetime_time"
    /\ UNCHANGED <<today, program, inp, req, resp, ret, model_calls, insert_calls, cli,
                   calendar, json, call, startup, preferred_time_str>>

\* a correction that counts one day too few
NextMondayOffByOne(t) == AddDays(t, 6 - weekday(t))

\* today + timedelta(days=(7 - today.weekday()))
NextMonday(t) == AddDays(t, 7 - weekday(t))

\* the "Correct start date if in past" block of generate_structured_plan
ServiceCorrectStartDate(t, s) ==
    LET p == strptime(s) IN
    IF p.ok THEN (IF DateLt(p.date, t) THEN NextMonday(t) ELSE p.date)
    ELSE NextMonday(t)

\* datetime.datetime.combine(date, time) as minutes
Combine(dt, tod) == toordinal(dt) * 1440 + tod

\* day_entry.get("projects_exercises", ""): the kind of value that becomes
\* the description of the task
GetProjects(day_entry) ==
    IF day_entry.projects = "absent" THEN "str" ELSE day_entry.projects

Task(day_num, date, description, startTime, endTime) ==
    [day_num |-> day_num, date |-> date, description |-> description,
     startTime |-> startTime, endTime |-> endTime]

\* a loop that keeps the date the model wrote in an entry when it is a date
RECURSIVE ServiceStructureTasksEntryDate(_, _, _, _, _, _)
ServiceStructureTasksEntryDate(items, k, start, tod, plan_hours, acc) ==
    IF k > Len(items) THEN [raised |-> FALSE, exc |-> "none", tasks |-> acc]
    ELSE IF items[k].kind /= "dict"
    THEN [raised |-> TRUE, exc |-> "AttributeError", tasks |-> acc]
    ELSE
        LET day_entry == items[k]
            day_num == GetNum(day_entry.dayNumber, Num(k))
            current_task_date == IF strptime(day_entry.date).ok
                                 THEN strptime(day_entry.date).date
                                 ELSE AddDays(start, k - 1)
            task_hours == ToNumber(GetNum(day_entry.est, Num(plan_hours)))
            task_start_dt == Combine(current_task_date, tod)
        IN  IF ~task_hours.ok
            THEN [raised |-> TRUE, exc |-> task_hours.exc, tasks |-> acc]
            ELSE ServiceStructureTasksEntryDate(items, k + 1, start, tod, plan_hours,
                     Append(acc, Task(day_num, current_task_date,
                                      GetProjects(day_entry), task_start_dt,
                                      task_start_dt + task_hours.n * 60)))

\* the loop over learningPlan of generate_structured_plan, from entry k on:
\* the tasks, or the exception that leaves the loop (nothing catches it)
RECURSIVE ServiceStructureTasks(_, _, _, _, _, _)
ServiceStructureTasks(items, k, start, tod, plan_hours, acc) ==
    IF k > Len(items) THEN [raised |-> FALSE, exc |-> "none", tasks |-> acc]
    ELSE IF items[k].kind /= "dict"
    THEN [raised |-> TRUE, exc |-> "AttributeError", tasks |-> acc]
    ELSE
        LET day_entry == items[k]
            day_num == GetNum(day_entry.dayNumber, Num(k))
            current_task_date == AddDays(start, k - 1)
            task_hours == ToNumber(GetNum(day_entry.est, Num(plan_hours)))
            task_start_dt == Combine(current_task_date, tod)
        IN  IF ~task_hours.ok
            THEN [raised |-> TRUE, exc |-> task_hours.exc, tasks |-> acc]
            ELSE ServiceStructureTasks(items, k + 1, start, tod, plan_hours,
                     Append(acc, Task(day_num, current_task_date,
                                      GetProjects(day_entry), task_start_dt,
                                      task_start_dt + task_hours.n * 60)))

\* the second component of what add_plan_to_calendar returns: None, or the
\* list of links, each named by the position of the task its event was
\* created for
NoLinks == [none |-> TRUE, items |-> <<>>]
Links(items) == [none |-> FALSE, items |-> items]

\* what a call returns: kind "ok" (tasks, text), "error" (None, message) or
\* "raise" (an exception leaves the call); start_date is the plan's
\* start_date as the call left it
Returned(kind, msg, exc, start_date, tasks) ==
    [kind |-> kind, msg |-> msg, exc |-> exc, start_date |-> start_date, tasks |-> tasks,
     count |-> 0, links |-> NoLinks]
NotCalled == Returned("none", "", "none", AbsentStr, <<>>)

\* iterating a learningPlan value that is no list
ServiceIterateNonList(lp, start_date) ==
    CASE lp.kind \in {"null", "num"} ->
            Returned("raise", "", "TypeError", start_date, <<>>)
      [] lp.kind \in {"dict", "text"} ->
            Returned("raise", "", "AttributeError", start_date, <<>>)
      [] OTHER ->
            Returned("error", "failed to structure into tasks", "none", start_date, <<>>)

\* generate_structured_plan after the model call
ServiceStructurePlan(t, rq, rs) ==
    IF rs.outcome = "exception"
    THEN Returned("error", "Error communicating with AI", "none", AbsentStr, <<>>)
    ELSE IF rs.outcome = "text" \/ rs.learningPlan.kind = "absent"
    THEN Returned("error",
             IF rs.blocked THEN "content policy" ELSE "AI did not return a valid plan",
             "none", AbsentStr, <<>>)
    ELSE
        LET plan_duration == ToNumber(GetNum(rs.duration_days, Num(rq.duration_days)))
            plan_start_date_str ==
                IF rs.start_date.kind = "absent" THEN rq.start_date_str ELSE rs.start_date
            plan_daily_hours ==
                ToNumber(GetNum(rs.daily_hours,
                    IF rq.daily_hours.k = "num" THEN rq.daily_hours ELSE Num(2)))
            corrected == ServiceCorrectStartDate(t, plan_start_date_str)
            tod == ParsePreferredTime(rs.preferred_time)
        IN  IF ~plan_duration.ok
            THEN Returned("raise", "", plan_duration.exc, rs.start_date, <<>>)
            ELSE IF ~plan_daily_hours.ok
            THEN Returned("raise", "", plan_daily_hours.exc, rs.start_date, <<>>)
            ELSE IF rs.learningPlan.kind /= "list"
            THEN ServiceIterateNonList(rs.learningPlan, strftime(corrected))
            ELSE
                LET r == ServiceStructureTasks(rs.learningPlan.items, 1, corrected,
                                               tod, plan_daily_hours.n, <<>>)
                IN  IF r.raised
                    THEN Returned("raise", "", r.exc, strftime(corrected), r.tasks)
                    ELSE IF r.tasks = <<>>
                    THEN Returned("error", "failed to structure into tasks", "none",
                                  strftime(corrected), <<>>)
                    ELSE Returned("ok", "plan text", "none", strftime(corrected), r.tasks)

\* the arguments of generate_structured_plan
Request(duration_days, start_date_str, daily_hours) ==
    [duration_days |-> duration_days, start_date_str |-> start_date_str,
     daily_hours |-> daily_hours]
NoRequest == Request(0, AbsentStr, NullNum)

\* generate_structured_plan: one model call (never repeated), then the
\* structuring of its outcome
\* how Google answers: creds.refresh succeeds, the interactive flow
\* succeeds, build() succeeds
Google(refresh_ok, flow_ok, build_ok) ==
    [refresh_ok |-> refresh_ok, flow_ok |-> flow_ok, build_ok |-> build_ok]

\* what _get_oauth_credentials did: calls of creds.refresh, runs of the
\* interactive flow, writes of token.json, removals of token.json
OAuthCalls(refreshes, flows, writes, removes) ==
    [refreshes |-> refreshes, flows |-> flows, writes |-> writes, removes |-> removes]
NoOAuthCalls == OAuthCalls(0, 0, 0, 0)

\* the outcome of _get_oauth_credentials: the exception that leaves it
\* ("none" when it returns creds), token.json afterwards, and what it did
OAuthResult(exc, token, calls) == [exc |-> exc, token_json |-> token, calls |-> calls]

\* a service that returns refreshed credentials without saving them
ServiceGetOAuthCredentialsUnsaved(cj, tj, g) ==
    IF ~cj THEN OAuthResult("FileNotFoundError", tj, NoOAuthCalls)
    ELSE IF tj = "malformed" THEN OAuthResult("ValueError", tj, NoOAuthCalls)
    ELSE IF tj = "valid" THEN OAuthResult("none", tj, NoOAuthCalls)
    ELSE IF tj = "expired" THEN
        IF g.refresh_ok
        THEN OAuthResult("none", tj, OAuthCalls(1, 0, 0, 0))
        ELSE OAuthResult("ConnectionRefusedError", "absent", OAuthCalls(1, 0, 0, 1))
    ELSE IF g.flow_ok
    THEN OAuthResult("none", "valid", OAuthCalls(0, 1, 1, 0))
    ELSE OAuthResult("ConnectionRefusedError", tj, OAuthCalls(0, 1, 0, 0))

\* LearningPlannerService._get_oauth_credentials
ServiceGetOAuthCredentials(cj, tj, g) ==
    IF ~cj THEN OAuthResult("FileNotFoundError", tj, NoOAuthCalls)
    ELSE IF tj = "malformed"
    \* Credentials.from_authorized_user_file raises
    THEN OAuthResult("ValueError", tj, NoOAuthCalls)
    ELSE IF tj = "valid" THEN OAuthResult("none", tj, NoOAuthCalls)
    ELSE IF tj = "expired" THEN
        IF g.refresh_ok
        THEN OAuthResult("none", "valid", OAuthCalls(1, 0, 1, 0))
        ELSE OAuthResult("ConnectionRefusedError", "absent", OAuthCalls(1, 0, 0, 1))
    ELSE IF g.flow_ok
    THEN OAuthResult("none", "valid", OAuthCalls(0, 1, 1, 0))
    ELSE OAuthResult("ConnectionRefusedError", tj, OAuthCalls(0, 1, 0, 0))

\* SkillLearningPlannerCLI._get_oauth_credentials
CliGetOAuthCredentials(cj, tj, g) ==
    IF tj = "malformed" THEN OAuthResult("ValueError", tj, NoOAuthCalls)
    ELSE IF tj = "valid" THEN OAuthResult("none", tj, NoOAuthCalls)
    ELSE IF tj = "expired" THEN
        IF g.refresh_ok
        THEN OAuthResult("none", "valid", OAuthCalls(1, 0, 1, 0))
        \* the old token is removed and the interactive flow is run
        ELSE IF ~cj THEN OAuthResult("FileNotFoundError", "absent", OAuthCalls(1, 0, 0, 1))
        ELSE IF g.flow_ok
        THEN OAuthResult("none", "valid", OAuthCalls(1, 1, 1, 1))
        ELSE OAuthResult("Exception", "absent", OAuthCalls(1, 1, 0, 1))
    ELSE IF ~cj THEN OAuthResult("FileNotFoundError", tj, NoOAuthCalls)
    ELSE IF g.flow_ok
    THEN OAuthResult("none", "valid", OAuthCalls(0, 1, 1, 0))
    ELSE OAuthResult("Exception", tj, OAuthCalls(0, 1, 0, 0))

\* _get_oauth_credentials of the service and of main_cli, called once
GetOAuthCredentials ==
    /\ program \in {"service", "main_cli"}
    /\ LET r == IF program = "service"
                THEN ServiceGetOAuthCredentials(credentials_json, token_json, google)
                ELSE CliGetOAuthCredentials(credentials_json, token_json, google)
       IN  /\ token_json' = r.token_json
           /\ oauth_calls' = r.calls
           /\ ret' = Returned(IF r.exc = "none" THEN "creds" ELSE "raise", "", r.exc,
                              AbsentStr, <<>>)
    /\ op' = "_get_oauth_credentials"
    /\ UNCHANGED <<today, program, inp, req, resp, model_calls, insert_calls, cli,
                   calendar, json, parse, call, api_key, credentials_json, google,
                   startup_error, planner_service_instance, status_code>>

\* a model call that is made again when it raises
GenerateContentRetried(rs) ==
    [calls |-> IF rs.outcome = "exception" THEN 2 ELSE 1, response |-> rs]

\* self.model.generate_content(contents=...): the one model call of a
\* service call, made inside a try whose handler returns
GenerateContent(rs) == [calls |-> 1, response |-> rs]

GenerateStructuredPlan(Requests, Responses) ==
    /\ program = "service"
    /\ \E rq \in Requests, rs \in Responses :
        /\ req' = rq
        /\ resp' = GenerateContent(rs).response
        /\ model_calls' = GenerateContent(rs).calls
        /\ ret' = ServiceStructurePlan(today, rq, rs)
    /\ op' = "generate_structured_plan"
    /\ insert_calls' = 0
    /\ UNCHANGED <<today, program, startup, call, inp, cli, calendar, json, parse>>

\* handle_chat_message: one model call (never repeated); its text, or an
\* apology when the call raises
HandleChatMessage(Responses) ==
    /\ program = "service"
    /\ \E rs \in Responses :
        /\ resp' = GenerateContent(rs).response
        /\ model_calls' = GenerateContent(rs).calls
        /\ ret' = IF rs.outcome = "exception"
                  THEN Returned("ai_error", "Sorry, I encountered an error", "none",
                                AbsentStr, <<>>)
                  ELSE Returned("chat", "response text", "none", AbsentStr, <<>>)
    /\ op' = "handle_chat_message"
    /\ req' = NoRequest
    /\ insert_calls' = 0
    /\ UNCHANGED <<today, program, startup, call, inp, cli, calendar, json, parse>>

\* a task handed to add_plan_to_calendar: an object with both times, an
\* object that lacks a time, or a value that is no object
CalendarTask(kind, startTime, endTime) ==
    [kind |-> kind, startTime |-> startTime, endTime |-> endTime]

\* a loop that gives up the batch at the first insert that raises
RECURSIVE AddTasksStopAtFailure(_, _, _, _, _)
AddTasksStopAtFailure(structured_tasks, k, fails, bound, acc) ==
    IF k > Len(structured_tasks) THEN acc
    ELSE
        LET task_data == structured_tasks[k]
        IN  IF task_data.kind = "nondict" THEN
                \* task_data.get raises; the handler prints summary
                IF bound
                THEN AddTasksStopAtFailure(structured_tasks, k + 1, fails, bound, acc)
                ELSE Inserted(acc.events, acc.log, TRUE)
            ELSE IF task_data.kind = "untimed" THEN
                \* skipped for its missing start or end time
                AddTasksStopAtFailure(structured_tasks, k + 1, fails, TRUE, acc)
            ELSE
                AddTasksStopAtFailure(structured_tasks,
                    IF fails[k] THEN Len(structured_tasks) + 1 ELSE k + 1, fails, TRUE,
                    Inserted(IF fails[k] THEN acc.events
                             ELSE Append(acc.events,
                                         Event(task_data.startTime, task_data.endTime)),
                             Append(acc.log, Attempt(k, ~fails[k])), FALSE))


\* the loop of add_plan_to_calendar from task k on; bound tells whether
\* summary has been assigned by an earlier task, fails[k] whether the insert
\* of task k raises (the handler prints and the loop goes on)
RECURSIVE AddTasks(_, _, _, _, _)
AddTasks(structured_tasks, k, fails, bound, acc) ==
    IF k > Len(structured_tasks) THEN acc
    ELSE
        LET task_data == structured_tasks[k]
        IN  IF task_data.kind = "nondict" THEN
                \* task_data.get raises; the handler prints summary
                IF bound
                THEN AddTasks(structured_tasks, k + 1, fails, bound, acc)
                ELSE Inserted(acc.events, acc.log, TRUE)
            ELSE IF task_data.kind = "untimed" THEN
                \* skipped for its missing start or end time
                AddTasks(structured_tasks, k + 1, fails, TRUE, acc)
            ELSE
                AddTasks(structured_tasks, k + 1, fails, TRUE,
                    Inserted(IF fails[k] THEN acc.events
                             ELSE Append(acc.events,
                                         Event(task_data.startTime, task_data.endTime)),
                             Append(acc.log, Attempt(k, ~fails[k])), FALSE))


\* created_event_links after the loop: one link per insert that returned
CreatedEventLinks(log) ==
    LET accepted == SelectSeq(log, LAMBDA a : a.ok)
    IN  [n \in 1..Len(accepted) |-> accepted[n].k]

\* a return that hands back the empty list when nothing was added
AddPlanReturnEmptyList(r) ==
    IF r.raised
    THEN Returned("raise", "", "UnboundLocalError", AbsentStr, <<>>)
    ELSE IF Len(r.events) > 0
    THEN [Returned("ok", "Successfully added", "none", AbsentStr, <<>>)
            EXCEPT !.count = Len(r.events), !.links = Links(CreatedEventLinks(r.log))]
    ELSE [Returned("error", "No events were added", "none", AbsentStr, <<>>)
            EXCEPT !.links = Links(<<>>)]

\* what add_plan_to_calendar returns after its loop: the message with
\* events_created_count and the links, or the message that nothing was
\* added and None; or the exception that left the loop
AddPlanReturn(r) ==
    IF r.raised
    THEN Returned("raise", "", "UnboundLocalError", AbsentStr, <<>>)
    ELSE IF Len(r.events) > 0
    THEN [Returned("ok", "Successfully added", "none", AbsentStr, <<>>)
            EXCEPT !.count = Len(r.events), !.links = Links(CreatedEventLinks(r.log))]
    ELSE Returned("error", "No events were added", "none", AbsentStr, <<>>)

\* add_plan_to_calendar: every task is tried once, in list order
AddPlanToCalendar(TaskLists) ==
    /\ program = "service"
    /\ \E structured_tasks \in TaskLists :
        /\ Len(calendar) + Len(structured_tasks) <= MaxCalendar
        /\ \E fails \in [1..Len(structured_tasks) -> BOOLEAN] :
            LET r == AddTasks(structured_tasks, 1, fails, FALSE,
                              Inserted(<<>>, <<>>, FALSE))
            IN  /\ args' = CallArgs(NoPlanData, NoPlanDetails, structured_tasks)
                /\ calendar' = calendar \o r.events
                /\ insert_log' = r.log
                /\ insert_calls' = Len(r.log)
                /\ ret' = AddPlanReturn(r)
    /\ op' = "add_plan_to_calendar"
    /\ req' = NoRequest
    /\ resp' = NoPlan("none", FALSE)
    /\ model_calls' = 0
    /\ UNCHANGED <<today, program, startup, inp, cli, json, parse>>

-----------------------------------------------------------------------------
(* main_api.py *)

\* LearningPlannerService(): the exception that leaves the constructor,
\* "none" when the object is built
ConstructService(key, cj, tj, g) ==
    IF ~key THEN OAuthResult("ValueError", tj, NoOAuthCalls)
    ELSE LET r == ServiceGetOAuthCredentials(cj, tj, g)
         IN  IF r.exc = "none" /\ ~g.build_ok
             THEN OAuthResult("Exception", r.token_json, r.calls)
             ELSE r

\* the module-level construction of planner_service_instance: every
\* exception is caught and leaves None
ApiStartup ==
    /\ program = "main_api"
    /\ startup_error = "pending"
    /\ LET r == ConstructService(api_key, credentials_json, token_json, google)
       IN  /\ startup_error' = r.exc
           /\ planner_service_instance' =
                  IF r.exc = "none" THEN "LearningPlannerService" ELSE "None"
           /\ token_json' = r.token_json
           /\ oauth_calls' = r.calls
    /\ op' = "startup"
    /\ UNCHANGED <<today, program, inp, req, resp, ret, model_calls, insert_calls, cli,
                   calendar, json, parse, call, api_key, credentials_json, google, status_code>>

\* an answer that skips the check of the instance
GetPlannerServiceUnchecked(instance) == [status_code |-> 200, planner |-> instance]

\* get_planner_service: 503 when the instance is None
GetPlannerService(instance) ==
    IF instance = "None"
    THEN [status_code |-> 503, planner |-> "None"]
    ELSE [status_code |-> 200, planner |-> instance]

\* the answer of an endpoint whose dependency raised 503
Unavailable ==
    /\ status_code' = 503
    /\ ret' = Returned("http_error", "Planner service is not available", "none",
                       AbsentStr, <<>>)
    /\ req' = NoRequest
    /\ resp' = NoPlan("none", FALSE)
    /\ model_calls' = 0
    /\ insert_calls' = 0
    /\ args' = NoArgs
    /\ insert_log' = <<>>
    /\ UNCHANGED calendar

\* POST /chat-message
ApiChatMessage(Responses) ==
    /\ program = "main_api"
    /\ startup_error /= "pending"
    /\ op' = "chat-message"
    /\ IF GetPlannerService(planner_service_instance).status_code = 503
       THEN Unavailable
       ELSE /\ \E rs \in Responses :
                /\ resp' = GenerateContent(rs).response
                /\ model_calls' = GenerateContent(rs).calls
                /\ ret' = IF rs.outcome = "exception"
                          THEN Returned("ai_error", "Sorry, I encountered an error", "none",
                                        AbsentStr, <<>>)
                          ELSE Returned("chat", "response text", "none", AbsentStr, <<>>)
            /\ status_code' = 200
            /\ req' = NoRequest
            /\ insert_calls' = 0
            /\ args' = NoArgs
            /\ insert_log' = <<>>
            /\ UNCHANGED calendar
    /\ UNCHANGED <<today, program, inp, cli, json, parse, api_key, credentials_json, token_json,
                   google, oauth_calls, startup_error, planner_service_instance>>

\* Task(**task_data) of the endpoint: summary and the two times are texts
\* the service formatted; description must be a text or None
TaskValidates(task_data) == task_data.description \in {"str", "null"}

\* the status POST /generate-plan answers with after the service call r:
\* 400 when the first component is None, 500 when the call or the
\* validation of a task raises, else 200
GeneratePlanStatus(r) ==
    CASE r.kind = "raise" -> 500
      [] r.kind = "error" -> 400
      [] \E k \in 1..Len(r.tasks) : ~TaskValidates(r.tasks[k]) -> 500
      [] OTHER -> 200

\* POST /generate-plan: 400 when the service returns no tasks, 500 when it
\* raises
ApiGeneratePlan(Requests, Responses) ==
    /\ program = "main_api"
    /\ startup_error /= "pending"
    /\ op' = "generate-plan"
    /\ IF GetPlannerService(planner_service_instance).status_code = 503
       THEN Unavailable
       ELSE /\ \E rq \in Requests, rs \in Responses :
                LET r == ServiceStructurePlan(today, rq, rs)
                IN  /\ req' = rq
                    /\ resp' = GenerateContent(rs).response
                    /\ model_calls' = GenerateContent(rs).calls
                    /\ ret' = r
                    /\ status_code' = GeneratePlanStatus(r)
            /\ insert_calls' = 0
            /\ args' = NoArgs
            /\ insert_log' = <<>>
            /\ UNCHANGED calendar
    /\ UNCHANGED <<today, program, inp, cli, json, parse, api_key, credentials_json, token_json,
                   google, oauth_calls, startup_error, planner_service_instance>>

\* the messages of add_plan_to_calendar that contain "Successfully", and
\* those whose lower-case form contains "failed" (none of the three it has)
ContainsSuccessfully(message) == message = "Successfully added"
ContainsFailed(message) ==
    message \notin {"Successfully added", "No events were added",
                    "Calendar service not available"}

\* the "basic error check" of integrate_plan_endpoint on the message
IntegratePlanStatus(message) ==
    IF ~ContainsSuccessfully(message) /\ ContainsFailed(message) THEN 500 ELSE 200

\* POST /integrate-plan: the tasks are validated Task objects
ApiIntegratePlan(TaskLists) ==
    /\ program = "main_api"
    /\ startup_error /= "pending"
    /\ op' = "integrate-plan"
    /\ IF GetPlannerService(planner_service_instance).status_code = 503
       THEN Unavailable
       ELSE /\ \E structured_tasks \in TaskLists :
                /\ Len(calendar) + Len(structured_tasks) <= MaxCalendar
                /\ \E fails \in [1..Len(structured_tasks) -> BOOLEAN] :
                    LET r == AddTasks(structured_tasks, 1, fails, FALSE,
                                      Inserted(<<>>, <<>>, FALSE))
                    IN  /\ args' = CallArgs(NoPlanData, NoPlanDetails, structured_tasks)
                        /\ calendar' = calendar \o r.events
                        /\ insert_log' = r.log
                        /\ insert_calls' = Len(r.log)
                        /\ ret' = AddPlanReturn(r)
                        /\ status_code' = IntegratePlanStatus(AddPlanReturn(r).msg)
            /\ req' = NoRequest
            /\ resp' = NoPlan("none", FALSE)
            /\ model_calls' = 0
    /\ UNCHANGED <<today, program, inp, cli, json, parse, api_key, credentials_json, token_json,
                   google, oauth_calls, startup_error, planner_service_instance>>

\* GET /: answers whatever the startup gave
ApiRoot ==
    /\ program = "main_api"
    /\ startup_error /= "pending"
    /\ op' = "root"
    /\ status_code' = 200
    /\ ret' = Returned("root",
                       IF planner_service_instance /= "None" THEN "available"
                       ELSE "unavailable (startup error)",
                       "none", AbsentStr, <<>>)
    /\ req' = NoRequest
    /\ resp' = NoPlan("none", FALSE)
    /\ model_calls' = 0
    /\ insert_calls' = 0
    /\ args' = NoArgs
    /\ insert_log' = <<>>
    /\ UNCHANGED <<today, program, inp, cli, calendar, json, parse, api_key,
                   credentials_json, token_json, google, oauth_calls, startup_error,
                   planner_service_instance>>

-----------------------------------------------------------------------------
(* main_cli.py: SkillLearningPlannerCLI *)

\* a line typed at the prompt, by what the handlers test of it: it is 'exit',
\* it contains an integration keyword, an ambiguous keyword (as a substring,
\* as a whole word), an explicit generation phrase
Input(is_exit, integrate, ambiguous, ambiguous_word, explicit) ==
    [is_exit |-> is_exit, integrate |-> integrate, ambiguous |-> ambiguous,
     ambiguous_word |-> ambiguous_word, explicit |-> explicit]
NoInput == Input(FALSE, FALSE, FALSE, FALSE, FALSE)

\* a successor month that forgets the year
NextMonthSameYear(t) == [y |-> t.y, m |-> (t.m % 12) + 1]

\* the month after today's, the year incremented after December
NextMonthOf(t) ==
    IF t.m + 1 > 12 THEN [y |-> t.y + 1, m |-> 1] ELSE [y |-> t.y, m |-> t.m + 1]

\* datetime.datetime(y, m, d), day 1 of the month on ValueError
DateOrFirst(y, m, d) == IF IsValidDate(y, m, d) THEN MkDate(y, m, d) ELSE MkDate(y, m, 1)

\* the "Date Correction Logic" of _parse_and_store_plan_cli
CliCorrectStartDate(t, s) ==
    LET p == strptime(s) IN
    IF p.ok THEN
        IF DateLt(p.date, t) THEN
            LET target == IF p.date.d <= t.d THEN NextMonthOf(t)
                          ELSE [y |-> t.y, m |-> t.m]
            IN  DateOrFirst(target.y, target.m, p.date.d)
        ELSE p.date
    ELSE MkDate(t.y, (t.m % 12) + 1, 1)

\* a loop that rewrites the dates and keeps the dayNumber the model wrote
CliRedateKeepsDayNumber(items, start) ==
    [i \in 1..Len(items) |->
        [items[i] EXCEPT !.date = strftime(AddDays(start, i - 1))]]

\* the loop that rewrites date and dayNumber of every entry
CliRedate(items, start) ==
    [i \in 1..Len(items) |->
        [items[i] EXCEPT !.date = strftime(AddDays(start, i - 1)),
                         !.dayNumber = Num(i)]]

\* _parse_and_store_plan_cli: what it returns or raises, and the fields it
\* leaves in the object
CliParseAndStore(t, rs, data, details) ==
    LET keep(kind, exc) ==
            [ret |-> Returned(kind, "", exc, AbsentStr, <<>>),
             data |-> data, details |-> details]
        daily == ToNumber(GetNum(rs.daily_hours, Num(0)))
        start == CliCorrectStartDate(t, rs.start_date)
    IN  IF rs.outcome /= "json" \/ rs.learningPlan.kind = "absent"
        THEN keep("chat", "none")
        ELSE IF ~( /\ rs.skill
                   /\ rs.duration_days.k = "num" /\ rs.duration_days.n > 0
                   /\ rs.start_date.kind \in {"ymd", "text", "num"}
                   /\ rs.preferred_time.kind = "str" )
        THEN keep("chat", "none")
        ELSE IF ~daily.ok
        THEN keep("raise", "ValueError")
        ELSE IF rs.learningPlan.kind \in {"null", "num", "dict", "text"}
        THEN keep("raise", "TypeError")
        ELSE IF \E i \in 1..Len(rs.learningPlan.items) :
                    rs.learningPlan.items[i].kind /= "dict"
        THEN keep("raise", "TypeError")
        ELSE [ret |-> Returned("plan_stored", "", "none", strftime(start), <<>>),
              data |-> PlanData(strftime(start), CliRedate(rs.learningPlan.items, start)),
              details |-> PlanDetails(start, rs.preferred_time, daily.n)]

\* the insert loop of _create_calendar_events_from_plan_details from entry k
\* on; fails[k] tells whether the insert of entry k raises (the handler
\* prints and the loop goes on); returns the events inserted
RECURSIVE CliCreateEvents(_, _, _, _, _)
CliCreateEvents(items, k, details, fails, acc) ==
    IF k > Len(items) THEN acc
    ELSE
        LET day_data == items[k]
            est == day_data.est
            actual_duration_hours ==
                IF est.k = "num" /\ est.n > 0 THEN est.n ELSE details.daily_hours
            parsed == strptime(day_data.date)
            current_event_date ==
                IF parsed.ok THEN parsed.date
                ELSE AddDays(details.start_date, day_data.dayNumber.n - 1)
            start_datetime_event ==
                Combine(current_event_date, ParsePreferredTime(details.preferred_time))
            event == Event(start_datetime_event,
                           start_datetime_event + actual_duration_hours * 60)
        IN  CliCreateEvents(items, k + 1, details, fails,
                            IF fails[k] THEN acc ELSE Append(acc, event))

\* the message of an integration pass that inserted n events
IntegrationMessage(n) == IF n > 0 THEN "Successfully integrated" ELSE "No events were integrated"

\* chat_session.send_message(user_input): the one model call of a turn,
\* made inside a try whose handler goes on to the next turn
SendMessage(rs) == [calls |-> 1, response |-> rs]

\* an integration handler that keeps the plan it has just integrated
CliIntegrationCommandKeepsPlan(data, details, fails) ==
    IF data.set /\ details.set
    THEN LET events == CliCreateEvents(data.items, 1, details, fails, <<>>)
         IN  [events |-> events,
              calls |-> Len(data.items),
              ret |-> Returned("integrated", IntegrationMessage(Len(events)),
                               "none", AbsentStr, <<>>),
              data |-> data,
              details |-> details]
    ELSE [events |-> <<>>,
          calls |-> 0,
          ret |-> Returned("nothing_to_integrate", "no plan ready", "none", AbsentStr, <<>>),
          data |-> data,
          details |-> details]

\* _handle_cli_integration_command once a keyword is found: with a plan
\* stored, one pass of _create_calendar_events_from_plan_details and then
\* both fields cleared; without one, a message only. Returns the events
\* inserted, the number of insert calls, the message and the two fields
CliIntegrationCommand(data, details, fails) ==
    IF data.set /\ details.set
    THEN LET events == CliCreateEvents(data.items, 1, details, fails, <<>>)
         IN  [events |-> events,
              calls |-> Len(data.items),
              ret |-> Returned("integrated", IntegrationMessage(Len(events)),
                               "none", AbsentStr, <<>>),
              data |-> NoPlanData,
              details |-> NoPlanDetails]
    ELSE [events |-> <<>>,
          calls |-> 0,
          ret |-> Returned("nothing_to_integrate", "no plan ready", "none", AbsentStr, <<>>),
          data |-> data,
          details |-> details]

\* a loop that looks for an ambiguous word before an integration keyword
CliHandlerClarifyFirst(u, len_history) ==
    IF u.is_exit THEN "exit"
    ELSE IF len_history <= 4 /\ u.ambiguous /\ ~u.explicit THEN "clarify"
    ELSE IF u.integrate THEN "integrate"
    ELSE "send_message"

\* the handler run_cli gives the line u to: the exit test, then
\* _handle_cli_integration_command, then _handle_cli_ambiguous_input (a
\* keyword anywhere in the line, while the history has at most 4 entries),
\* then the model
CliHandler(u, len_history) ==
    IF u.is_exit THEN "exit"
    ELSE IF u.integrate THEN "integrate"
    ELSE IF len_history <= 4 /\ u.ambiguous /\ ~u.explicit THEN "clarify"
    ELSE "send_message"

\* one iteration of the while loop of run_cli: the line u is read and handled
\* by the first handler that takes it
CliTurn(Inputs, Responses) ==
    /\ program = "main_cli"
    /\ running
    /\ \E u \in Inputs :
        /\ inp' = u
        /\ req' = NoRequest
        /\ IF CliHandler(u, history) = "exit" THEN
                \* 'exit': leave the loop
                /\ op' = "exit"
                /\ running' = FALSE
                /\ ret' = Returned("exit", "Goodbye", "none", AbsentStr, <<>>)
                /\ resp' = NoPlan("none", FALSE)
                /\ model_calls' = 0
                /\ insert_calls' = 0
                /\ UNCHANGED <<history, last_parsed_plan_data, last_parsed_plan_details, calendar>>
           ELSE IF CliHandler(u, history) = "integrate" THEN
                \* _handle_cli_integration_command
                /\ op' = "integrate"
                /\ resp' = NoPlan("none", FALSE)
                /\ model_calls' = 0
                /\ Len(calendar) + Len(last_parsed_plan_data.items) <= MaxCalendar
                /\ \E fails \in [1..Len(last_parsed_plan_data.items) -> BOOLEAN] :
                    LET r == CliIntegrationCommand(last_parsed_plan_data,
                                                   last_parsed_plan_details, fails)
                    IN  /\ calendar' = calendar \o r.events
                        /\ ret' = r.ret
                        /\ insert_calls' = r.calls
                        /\ last_parsed_plan_data' = r.data
                        /\ last_parsed_plan_details' = r.details
                /\ UNCHANGED <<running, history>>
           ELSE IF CliHandler(u, history) = "clarify" THEN
                \* _handle_cli_ambiguous_input
                /\ history + 2 <= MaxHistory
                /\ op' = "clarify"
                /\ history' = history + 2
                /\ ret' = Returned("clarified", "could you clarify", "none", AbsentStr, <<>>)
                /\ resp' = NoPlan("none", FALSE)
                /\ model_calls' = 0
                /\ insert_calls' = 0
                /\ UNCHANGED <<running, last_parsed_plan_data, last_parsed_plan_details, calendar>>
           ELSE
                \* chat_session.send_message, then _parse_and_store_plan_cli
                /\ op' = "send_message"
                /\ insert_calls' = 0
                /\ \E rs \in Responses :
                    /\ resp' = SendMessage(rs).response
                    /\ model_calls' = SendMessage(rs).calls
                    /\ IF rs.outcome = "exception" THEN
                            /\ ret' = Returned("ai_error", "AI Error", "none", AbsentStr, <<>>)
                            /\ UNCHANGED <<running, history, last_parsed_plan_data,
                                           last_parsed_plan_details>>
                       ELSE
                            LET r == CliParseAndStore(today, rs, last_parsed_plan_data,
                                                      last_parsed_plan_details)
                            IN  /\ history + 2 <= MaxHistory
                                /\ history' = history + 2
                                /\ ret' = r.ret
                                /\ last_parsed_plan_data' = r.data
                                /\ last_parsed_plan_details' = r.details
                                \* an exception leaves run_cli: the loop is over
                                /\ running' = (r.ret.kind /= "raise")
                /\ UNCHANGED calendar
    /\ UNCHANGED <<today, program, startup, call, json, parse>>

-----------------------------------------------------------------------------
(* fast.py: SkillLearningPlannerChat *)

\* extract_valid_json: the fences are cut off the ends, comments and
\* trailing commas removed, and every exception answered by None
ExtractJson(text) ==
    LET t1 == IF At(text, 1) = "J" THEN Slice(text, 2, Len(text)) ELSE text
        t2 == IF At(t1, Len(t1)) = "T" THEN Slice(t1, 1, Len(t1) - 1) ELSE t1
        start_index == Find(t2, "{")
        end_index == RFind(t2, "}")
        cleaned_response ==
            StripCommasBefore(
                StripCommasBefore(
                    StripComments(Slice(t2, start_index, end_index), 1),
                    1, {"}"}),
                1, {"]"})
    IN  IF start_index = 0 \/ end_index = 0
        THEN Extracted("None", <<>>)
        ELSE IF json_loads(cleaned_response) = "JSONDecodeError"
        THEN Extracted("None", cleaned_response)
        ELSE Extracted("dict", cleaned_response)

ExtractValidJson ==
    /\ program = "fast"
    /\ op' = "extract"
    /\ extracted' = ExtractJson(response_text)
    /\ UNCHANGED <<today, program, startup, call, inp, req, resp, ret, model_calls, insert_calls,
                   cli, calendar, response_text, parse>>

\* the date correction of _parse_and_store_plan_from_ai_response: the start
\* date and corrected_to_future_date
ChatCorrectStartDate(t, s) ==
    LET p == strptime(s)
        target == NextMonthOf(t)
    IN  IF p.ok THEN
            IF DateLt(p.date, t)
            THEN [date |-> DateOrFirst(target.y, target.m, p.date.d), corrected |-> TRUE]
            ELSE [date |-> p.date, corrected |-> FALSE]
        ELSE [date |-> MkDate(target.y, target.m, 1), corrected |-> TRUE]

\* the loop that rewrites the date of every entry after a correction:
\* the start date plus dayNumber - 1 days, dayNumber 1 when missing
ChatRedate(items, start) ==
    [i \in 1..Len(items) |->
        [items[i] EXCEPT !.date =
            strftime(AddDays(start, GetNum(items[i].dayNumber, Num(1)).n - 1))]]

\* _parse_and_store_plan_from_ai_response: what it returns or raises, and
\* the fields it leaves in the object
ChatParseAndStore(t, rs, data, details) ==
    LET keep(kind, exc) ==
            [ret |-> Returned(kind, "", exc, AbsentStr, <<>>),
             data |-> data, details |-> details]
        c == ChatCorrectStartDate(t, rs.start_date)
        items == rs.learningPlan.items
        \* the entries the redating loop fails on: not an object, or a
        \* dayNumber that is no number
        bad == { i \in 1..Len(items) :
                   items[i].kind /= "dict" \/ items[i].dayNumber.k \in {"null", "text"} }
        first_bad == CHOOSE i \in bad : \A j \in bad : i <= j
        new_data == IF c.corrected
                    THEN PlanData(strftime(c.date), ChatRedate(items, c.date))
                    ELSE PlanData(rs.start_date, items)
    IN  IF rs.outcome /= "json" \/ rs.learningPlan.kind /= "list"
        THEN keep("chat", "none")
        ELSE IF ~( /\ rs.skill
                   /\ rs.preferred_time.kind = "str"
                   /\ rs.daily_hours.k \in {"num", "text"} )
        THEN keep("chat", "none")
        ELSE IF c.corrected /\ bad /= {}
        THEN keep("raise", IF items[first_bad].kind /= "dict" THEN "AttributeError"
                           ELSE "TypeError")
        ELSE IF rs.daily_hours.k = "text"
        \* float(daily_hours) raises after last_parsed_plan_data is assigned
        THEN [ret |-> Returned("raise", "", "ValueError", AbsentStr, <<>>),
              data |-> new_data, details |-> details]
        ELSE [ret |-> Returned("plan_stored", "", "none", new_data.start_date, <<>>),
              data |-> new_data,
              details |-> PlanDetails(c.date, rs.preferred_time, rs.daily_hours.n)]

\* _format_plan_for_display on the stored plan: the exception it raises for
\* an entry that is no object (day_entry.get) or whose date is no string
\* (strptime; only ValueError is caught), "none" when it returns its text
ChatFormatPlanForDisplay(data) ==
    LET bad == { i \in 1..Len(data.items) :
                   \/ data.items[i].kind /= "dict"
                   \/ data.items[i].date.kind \in {"null", "num"} }
        first_bad == CHOOSE i \in bad : \A j \in bad : i <= j
    IN  IF bad = {} THEN "none"
        ELSE IF data.items[first_bad].kind /= "dict" THEN "AttributeError"
        ELSE "TypeError"

\* the hour create_calendar_events takes from the preferred time (the minute
\* stays 0: min_part is computed and not used)
ChatParseHours(t) ==
    IF t.kind /= "str" THEN 9
    ELSE IF t.hr >= 0 THEN
        LET ampm_part == IF t.sep = "." THEN "" ELSE t.ampm
        IN  IF ampm_part = "pm" /\ t.hr < 12 THEN t.hr + 12
            ELSE IF ampm_part = "am" /\ t.hr = 12 THEN 0
            ELSE t.hr
    ELSE IF t.kw = "morning" THEN 9
    ELSE IF t.kw = "afternoon" THEN 14
    ELSE IF t.kw \in {"evening", "night"} THEN 19
    ELSE 9

\* the insert loop of create_calendar_events from entry k on; bound tells
\* whether day_num has been assigned by an earlier entry, fails[k] whether
\* the insert of entry k raises
RECURSIVE ChatCreateEvents(_, _, _, _, _, _, _)
ChatCreateEvents(items, k, details, hours, fails, bound, acc) ==
    IF k > Len(items) THEN acc
    ELSE IF items[k].kind /= "dict" THEN
        \* day_data.get raises; the handler prints day_num
        IF bound
        THEN ChatCreateEvents(items, k + 1, details, hours, fails, bound, acc)
        ELSE Inserted(acc.events, acc.log, TRUE)
    ELSE
        LET day_data == items[k]
            day_num == day_data.dayNumber
            est == day_data.est
            actual_event_duration ==
                IF est.k = "num" THEN est.n ELSE details.daily_hours
            parsed == strptime(day_data.date)
            skip == ChatCreateEvents(items, k + 1, details, hours, fails, TRUE, acc)
        IN  IF day_data.date.kind = "num"
            THEN skip
            ELSE IF ~parsed.ok /\ day_num.k = "text"
            THEN skip
            ELSE IF ~parsed.ok /\ day_num.k \in {"absent", "null"}
            THEN skip
            ELSE IF ~(0 <= hours /\ hours <= 23)
            THEN skip
            ELSE
                LET current_event_date ==
                        IF parsed.ok THEN parsed.date
                        ELSE AddDays(details.start_date, day_num.n - 1)
                    start_datetime == Combine(current_event_date, TimeOfDay(hours, 0))
                    event == Event(start_datetime,
                                   start_datetime + actual_event_duration * 60)
                IN  ChatCreateEvents(items, k + 1, details, hours, fails, TRUE,
                        Inserted(IF fails[k] THEN acc.events
                                 ELSE Append(acc.events, event),
                                 Append(acc.log, Attempt(k, ~fails[k])), FALSE))

\* create_calendar_events: the status it returns, or the exception
ChatCreateCalendarEvents(data, details, fails) ==
    IF data.items = <<>>
    THEN [ret |-> Returned("integrated", "Invalid plan for calendar integration", "none",
                           AbsentStr, <<>>),
          events |-> <<>>, log |-> <<>>]
    ELSE
        LET r == ChatCreateEvents(data.items, 1, details,
                                  ChatParseHours(details.preferred_time), fails, FALSE,
                                  Inserted(<<>>, <<>>, FALSE))
        IN  [ret |-> IF r.raised
                     THEN Returned("raise", "", "UnboundLocalError", AbsentStr, <<>>)
                     ELSE Returned("integrated", IntegrationMessage(Len(r.events)), "none",
                                   AbsentStr, <<>>),
             events |-> r.events, log |-> r.log]

\* a loop whose clarification does not look at the length of the history
ChatHandlerAnyTurn(u, len_history) ==
    IF u.is_exit THEN "exit"
    ELSE IF u.integrate THEN "integrate"
    ELSE IF u.ambiguous_word /\ ~u.explicit THEN "clarify"
    ELSE "send_message"

\* the handler run gives the line u to: the exit test, then
\* _handle_integration_command, then _handle_ambiguous_initial_input (a
\* keyword as a whole word, while the history has at most 2 entries), then
\* the model
ChatHandler(u, len_history) ==
    IF u.is_exit THEN "exit"
    ELSE IF u.integrate THEN "integrate"
    ELSE IF len_history <= 2 /\ u.ambiguous_word /\ ~u.explicit THEN "clarify"
    ELSE "send_message"

\* one iteration of the while loop of run: the line u is read and handled
\* by the first handler that takes it
ChatTurn(Inputs, Responses) ==
    /\ program = "fast"
    /\ running
    /\ \E u \in Inputs :
        /\ inp' = u
        /\ req' = NoRequest
        /\ IF ChatHandler(u, history) = "exit" THEN
                \* 'exit': leave the loop
                /\ op' = "exit"
                /\ running' = FALSE
                /\ ret' = Returned("exit", "Goodbye", "none", AbsentStr, <<>>)
                /\ resp' = NoPlan("none", FALSE)
                /\ model_calls' = 0
                /\ insert_calls' = 0
                /\ UNCHANGED <<history, last_parsed_plan_data, last_parsed_plan_details, calendar>>
           ELSE IF ChatHandler(u, history) = "integrate" THEN
                \* _handle_integration_command
                /\ op' = "integrate"
                /\ resp' = NoPlan("none", FALSE)
                /\ model_calls' = 0
                /\ IF last_parsed_plan_data.set /\ last_parsed_plan_details.set THEN
                        /\ Len(calendar) + Len(last_parsed_plan_data.items) <= MaxCalendar
                        /\ \E fails \in [1..Len(last_parsed_plan_data.items) -> BOOLEAN] :
                            LET r == ChatCreateCalendarEvents(last_parsed_plan_data,
                                         last_parsed_plan_details, fails)
                            IN  /\ calendar' = calendar \o r.events
                                /\ insert_calls' = Len(r.log)
                                /\ ret' = r.ret
                                \* an exception leaves run before the plan is cleared
                                /\ running' = (r.ret.kind /= "raise")
                                /\ last_parsed_plan_data' =
                                       IF r.ret.kind = "raise" THEN last_parsed_plan_data
                                       ELSE NoPlanData
                                /\ last_parsed_plan_details' =
                                       IF r.ret.kind = "raise" THEN last_parsed_plan_details
                                       ELSE NoPlanDetails
                   ELSE
                        /\ ret' = Returned("nothing_to_integrate", "no recent plan",
                                           "none", AbsentStr, <<>>)
                        /\ insert_calls' = 0
                        /\ UNCHANGED <<running, last_parsed_plan_data,
                                       last_parsed_plan_details, calendar>>
                /\ UNCHANGED history
           ELSE IF ChatHandler(u, history) = "clarify" THEN
                \* _handle_ambiguous_initial_input
                /\ history + 2 <= MaxHistory
                /\ op' = "clarify"
                /\ history' = history + 2
                /\ ret' = Returned("clarified", "are you trying to", "none", AbsentStr, <<>>)
                /\ resp' = NoPlan("none", FALSE)
                /\ model_calls' = 0
                /\ insert_calls' = 0
                /\ UNCHANGED <<running, last_parsed_plan_data, last_parsed_plan_details, calendar>>
           ELSE
                \* chat_with_ai, then _parse_and_store_plan_from_ai_response
                /\ op' = "send_message"
                /\ insert_calls' = 0
                /\ \E rs \in Responses :
                    /\ resp' = SendMessage(rs).response
                    /\ model_calls' = SendMessage(rs).calls
                    /\ IF rs.outcome = "exception" THEN
                            \* chat_with_ai returns its apology, which holds no plan
                            /\ ret' = Returned("ai_error", "trouble connecting", "none",
                                               AbsentStr, <<>>)
                            /\ UNCHANGED <<running, history, last_parsed_plan_data,
                                           last_parsed_plan_details>>
                       ELSE
                            LET r == ChatParseAndStore(today, rs, last_parsed_plan_data,
                                                       last_parsed_plan_details)
                                \* a stored plan is formatted for display
                                shown == IF r.ret.kind = "plan_stored"
                                         THEN ChatFormatPlanForDisplay(r.data)
                                         ELSE "none"
                            IN  /\ history + 2 <= MaxHistory
                                /\ history' = history + 2
                                /\ ret' = IF shown = "none" THEN r.ret
                                          ELSE Returned("raise", "", shown, AbsentStr, <<>>)
                                /\ last_parsed_plan_data' = r.data
                                /\ last_parsed_plan_details' = r.details
                                \* an exception leaves run: the loop is over
                                /\ running' = (r.ret.kind /= "raise" /\ shown = "none")
                /\ UNCHANGED calendar
    /\ UNCHANGED <<today, program, startup, call, json, parse>>

\* create_calendar_events called with a plan and its details
CreateCalendarEvents(Plans) ==
    /\ program = "fast"
    /\ \E a \in Plans :
        /\ Len(calendar) + Len(a.data.items) <= MaxCalendar
        /\ \E fails \in [1..Len(a.data.items) -> BOOLEAN] :
            LET r == ChatCreateCalendarEvents(a.data, a.details, fails)
            IN  /\ args' = a
                /\ calendar' = calendar \o r.events
                /\ insert_log' = r.log
                /\ insert_calls' = Len(r.log)
                /\ ret' = r.ret
    /\ op' = "create_calendar_events"
    /\ req' = NoRequest
    /\ resp' = NoPlan("none", FALSE)
    /\ model_calls' = 0
    /\ UNCHANGED <<today, program, startup, inp, cli, json, parse>>

-----------------------------------------------------------------------------
(* roughs.py: generate_structured_plan *)

\* datetime.date(today.year, (today.month % 12) + 1, 1)
RoughsFirstOfNextMonth(t) == MkDate(t.y, (t.m % 12) + 1, 1)

\* the "Correct start date if in past" block
RoughsCorrectStartDate(t, s) ==
    LET p == strptime(s) IN
    IF p.ok THEN (IF DateLt(p.date, t) THEN RoughsFirstOfNextMonth(t) ELSE p.date)
    ELSE RoughsFirstOfNextMonth(t)

\* the "Recalculate Tasks" loop, from entry k on
RECURSIVE RoughsStructureTasks(_, _, _, _, _, _)
RoughsStructureTasks(items, k, start, tod, plan_hours, acc) ==
    IF k > Len(items) THEN [raised |-> FALSE, exc |-> "none", tasks |-> acc]
    ELSE IF items[k].kind /= "dict"
    THEN [raised |-> TRUE, exc |-> "TypeError", tasks |-> acc]
    ELSE
        LET task_date == AddDays(start, k - 1)
            est_time == ToNumber(GetNum(items[k].est, Num(plan_hours)))
            start_dt == Combine(task_date, tod)
        IN  IF ~est_time.ok
            THEN [raised |-> TRUE, exc |-> est_time.exc, tasks |-> acc]
            ELSE RoughsStructureTasks(items, k + 1, start, tod, plan_hours,
                     Append(acc, Task(Num(k), task_date, GetProjects(items[k]), start_dt,
                                      start_dt + est_time.n * 60)))

\* generate_structured_plan after the model call
RoughsStructurePlan(t, rq, rs) ==
    IF rs.outcome = "exception"
    THEN Returned("error", "Error calling Gemini", "none", AbsentStr, <<>>)
    ELSE IF rs.outcome = "text" \/ rs.learningPlan.kind = "absent"
    THEN Returned("error", "AI did not return a valid learning plan", "none", AbsentStr, <<>>)
    ELSE
        LET start_date_str ==
                IF rs.start_date.kind = "absent" THEN rq.start_date_str ELSE rs.start_date
            plan_duration == ToNumber(GetNum(rs.duration_days, Num(rq.duration_days)))
            plan_hours ==
                ToNumber(GetNum(rs.daily_hours,
                    IF rq.daily_hours.k = "num" /\ rq.daily_hours.n /= 0
                    THEN rq.daily_hours ELSE Num(2)))
            corrected_date == RoughsCorrectStartDate(t, start_date_str)
            tod == ParsePreferredTime(rs.preferred_time)
        IN  IF ~plan_duration.ok
            THEN Returned("raise", "", plan_duration.exc, rs.start_date, <<>>)
            ELSE IF ~plan_hours.ok
            THEN Returned("raise", "", plan_hours.exc, rs.start_date, <<>>)
            ELSE IF rs.learningPlan.kind \in {"null", "num"}
            THEN Returned("raise", "", "TypeError", strftime(corrected_date), <<>>)
            ELSE IF rs.learningPlan.kind \in {"dict", "text"}
            THEN Returned("raise", "", "TypeError", strftime(corrected_date), <<>>)
            ELSE
                LET r == RoughsStructureTasks(rs.learningPlan.items, 1, corrected_date,
                                              tod, plan_hours.n, <<>>)
                IN  IF r.raised
                    THEN Returned("raise", "", r.exc, strftime(corrected_date), r.tasks)
                    ELSE Returned("ok", "plan text", "none", strftime(corrected_date), r.tasks)

\* generate_structured_plan of roughs.py: one model call, then the structuring
RoughsGenerateStructuredPlan(Requests, Responses) ==
    /\ program = "roughs"
    /\ \E rq \in Requests, rs \in Responses :
        /\ req' = rq
        /\ resp' = rs
        /\ ret' = RoughsStructurePlan(today, rq, rs)
    /\ op' = "generate_structured_plan"
    /\ model_calls' = 1
    /\ insert_calls' = 0
    /\ UNCHANGED <<today, program, startup, call, inp, cli, calendar, json, parse>>

-----------------------------------------------------------------------------
(* The inputs the specifications draw from *)

\* the "Y-M-D" texts that name no day of the calendar, in the year of t
BadYmd(t) ==
    { s \in { YmdStr(t.y, m, d) : m \in 1..12, d \in 29..31 } :
        ~IsValidDate(s.y, s.m, s.d) }

\* the start_date values of a model response around t: every day from
\* WindowBack days before t to WindowFwd days after it, the texts that are
\* no date, null and a missing key
StartDateInputs(t) ==
    { strftime(AddDays(t, n)) : n \in (0 - WindowBack)..WindowFwd }
    \cup BadYmd(t) \cup {OtherStr, NullStr, NumStr, AbsentStr}

GoodEntry == Entry("dict", AbsentNum, AbsentStr, Num(1))

\* a plan that is complete but for its start_date
DatedPlan(s) ==
    Response("json", FALSE, TRUE, Num(1), s, WordTime("morning"), Num(2),
             PlanList(<<GoodEntry>>))

DateResponses(t) == { DatedPlan(s) : s \in StartDateInputs(t) }

\* the characters a string value of the texts is made of
ContentChars == {"a", "}", "]", ",", "/", "T"}

Contents == UNION { [1..n -> ContentChars] : n \in 0..MaxStrLen }

Quoted(c) == <<"q">> \o c \o <<"q">>
KeyColon == <<"q", "a", "q", ":">>

\* the values given to the key of an object: a string, an array holding the
\* string and a number, an object holding the string, a number
ValuesOf(c) ==
    { Quoted(c),
      <<"[">> \o Quoted(c) \o <<",", " ", "1", "]">>,
      <<"{">> \o KeyColon \o Quoted(c) \o <<"}">>,
      <<"1", "1">> }

\* well-formed JSON objects
Objects ==
    { <<"{">> \o KeyColon \o <<" ">> \o v \o <<"}">> :
        v \in UNION { ValuesOf(c) : c \in Contents } }
    \cup { <<"{", "}">>,
           <<"{">> \o KeyColon \o <<"1", ",", "n">> \o KeyColon \o <<"[", "]", "}">> }

\* objects with the trailing commas the extractors repair
RepairableObjects ==
    { <<"{">> \o KeyColon \o <<"1", ",", "n", "}">>,
      <<"{">> \o KeyColon \o <<"[", "1", ",", "]", ",", "}">> }

\* an object in a ```json block, alone or within prose
Fenced(o) == <<"J", "n">> \o o \o <<"n", "T">>
Layouts(o) ==
    { Fenced(o),
      <<"J">> \o o \o <<"T">>,
      <<"a", " ">> \o Fenced(o) \o <<"n", "a">>,
      o,
      <<"a", " ">> \o o \o <<" ", "a">> }

\* texts of arbitrary characters
JunkChars == {"{", "}", "q", "a", "J", "T"}
Junk == UNION { [1..n -> JunkChars] : n \in 0..MaxJunkLen }

\* the response texts given to the extractors
ResponseTexts ==
    UNION { Layouts(o) : o \in Objects \cup RepairableObjects }
    \cup Junk

\* the entries of a learningPlan: a complete object, one without
\* estimated_time_hours, one whose estimated_time_hours is null or a text
\* that is no number, and a value that is no object
EntryShapes ==
    { GoodEntry,
      Entry("dict", Num(1), AbsentStr, AbsentNum),
      Entry("dict", AbsentNum, AbsentStr, NullNum),
      Entry("dict", AbsentNum, AbsentStr, TextNum),
      NonDictEntry }

EntryLists == UNION { [1..n -> EntryShapes] : n \in 0..MaxEntries }

\* a day that is neither a Monday nor the end of a month
SomeDay == MkDate(BaseYear, 5, 15)

\* entries in which the model wrote a date, before t or after it, with or
\* without a dayNumber of its own
DatedEntries(t) ==
    { Entry("dict", dn, strftime(AddDays(t, n)), Num(1)) :
        dn \in {AbsentNum, Num(7)}, n \in {-3, 9} }

DatedEntryLists(t) == UNION { [1..n -> DatedEntries(t)] : n \in 1..MaxEntries }

\* the plans of the model for the service: every list of entries, with a
\* start date before, on and after today or missing, the top-level numbers
\* present, missing, null or no number, entries that carry dates, and hours
\* that are zero or negative
ServicePlans(t) ==
    { Response("json", FALSE, TRUE, Num(2), sd, ClockTime(9, ":", 30, "pm"), Num(1),
               PlanList(l)) :
        sd \in {strftime(AddDays(t, -1)), strftime(t)}, l \in DatedEntryLists(t) }
    \cup
    { Response("json", FALSE, TRUE, Num(2), sd, WordTime("evening"), Num(1), PlanList(l)) :
        sd \in {strftime(AddDays(t, -1)), strftime(t), AbsentStr}, l \in EntryLists }
    \cup { Response("json", FALSE, TRUE, dd, strftime(t), ClockTime(9, ":", 30, "pm"), dh,
                    PlanList(<<GoodEntry>>)) :
             dd \in {Num(2), AbsentNum, NullNum, TextNum},
             dh \in {Num(1), AbsentNum, NullNum, TextNum} }
    \cup { Response("json", FALSE, TRUE, Num(2), strftime(t), NullTime, Num(1), NonList(k)) :
             k \in {"absent", "null", "num", "dict", "text", "emptydict"} }
    \cup { Response("json", FALSE, TRUE, Num(2), strftime(t), WordTime("evening"), dh,
                    PlanList(<<Entry("dict", AbsentNum, AbsentStr, e)>>)) :
             dh \in {Num(0), Num(1)}, e \in {Num(-1), Num(0), AbsentNum} }
    \cup { NoPlan(o, b) : o \in {"exception", "text"}, b \in BOOLEAN }

ServiceRequests(t) ==
    { Request(3, sd, dh) : sd \in {strftime(AddDays(t, 1)), OtherStr},
                           dh \in {Num(3), NullNum} }

\* the tasks handed to add_plan_to_calendar: task i of a list starts in the
\* evening of day i and lasts an hour
CalendarTaskAt(kind, i) ==
    IF kind = "timed"
    THEN CalendarTask("timed", Combine(AddDays(SomeDay, i - 1), TimeOfDay(19, 0)),
                      Combine(AddDays(SomeDay, i - 1), TimeOfDay(20, 0)))
    ELSE CalendarTask(kind, 0, 0)

TaskLists ==
    UNION { { [i \in 1..n |-> CalendarTaskAt(f[i], i)] :
                f \in [1..n -> {"timed", "untimed", "nondict"}] } : n \in 0..MaxEntries }

\* the plans handed to create_calendar_events: entries with a dayNumber, with
\* a date, with neither, with a dayNumber that is no number, and values that
\* are no object
ChatEntryShapes ==
    { Entry("dict", Num(1), AbsentStr, Num(1)),
      Entry("dict", AbsentNum, strftime(AddDays(SomeDay, 1)), AbsentNum),
      Entry("dict", AbsentNum, OtherStr, Num(1)),
      Entry("dict", TextNum, AbsentStr, Num(1)),
      NonDictEntry }

ChatPlans ==
    { CallArgs(PlanData(strftime(SomeDay), l), PlanDetails(SomeDay, pt, 1), <<>>) :
        l \in UNION { [1..n -> ChatEntryShapes] : n \in 0..MaxEntries },
        pt \in {WordTime("evening"), ClockTime(25, ":", 0, ""), ClockTime(14, ":", 30, ""),
                ClockTime(9, ":", 30, "pm")} }

\* a line that no handler takes before the model
PlainInput == Input(FALSE, FALSE, FALSE, FALSE, FALSE)

\* the lines a user types: exit, an integration command (alone and with an
\* ambiguous word), an ambiguous word (as a whole word, inside another word,
\* and next to an explicit request) and any other line
TurnInputs ==
    { Input(TRUE, FALSE, FALSE, FALSE, FALSE),
      Input(FALSE, TRUE, FALSE, FALSE, FALSE),
      Input(FALSE, TRUE, TRUE, TRUE, FALSE),
      Input(FALSE, FALSE, TRUE, TRUE, FALSE),
      Input(FALSE, FALSE, TRUE, FALSE, FALSE),
      Input(FALSE, FALSE, TRUE, TRUE, TRUE),
      PlainInput }

\* what the model answers in a turn: nothing (the call raises), plain text,
\* a plan that starts before or on today, a plan whose daily_hours is no
\* number or is missing, or a plan without skill
TurnPlan(sd, dh, l) ==
    Response("json", FALSE, TRUE, Num(2), sd, WordTime("evening"), dh, PlanList(l))

TurnResponses(t) ==
    { NoPlan(o, FALSE) : o \in {"exception", "text"} }
    \cup { TurnPlan(sd, Num(1), l) :
             sd \in {strftime(AddDays(t, -1)), strftime(t)},
             l \in { <<>>,
                     <<Entry("dict", Num(1), AbsentStr, Num(1))>>,
                     <<GoodEntry, Entry("dict", Num(2), AbsentStr, AbsentNum)>>,
                     <<NonDictEntry>>,
                     <<Entry("dict", Num(1), NullStr, Num(1))>> } }
    \cup { TurnPlan(strftime(t), dh, <<GoodEntry>>) : dh \in {TextNum, AbsentNum} }
    \cup { Response("json", FALSE, FALSE, Num(2), strftime(t), WordTime("evening"), Num(1),
                    PlanList(<<GoodEntry>>)) }

DateRequests(t) ==
    { Request(1, strftime(AddDays(t, n)), Num(2)) : n \in {-1, 1} }

-----------------------------------------------------------------------------
(* Specifications *)

\* the state after construction: nothing called, no plan stored, the chat
\* history holding the two setup messages
NoCallYet ==
    /\ op = "none"
    /\ inp = NoInput
    /\ req = NoRequest
    /\ resp = NoPlan("none", FALSE)
    /\ ret = NotCalled
    /\ model_calls = 0
    /\ insert_calls = 0
    /\ running = TRUE
    /\ history = 2
    /\ last_parsed_plan_data = NoPlanData
    /\ last_parsed_plan_details = NoPlanDetails
    /\ extracted = NotExtracted
    /\ args = NoArgs
    /\ insert_log = <<>>
    /\ parsed_time = NotParsed
    /\ oauth_calls = NoOAuthCalls
    /\ startup_error = "pending"
    /\ planner_service_instance = "None"
    /\ status_code = 0

\* an object constructed with its key and its credentials in place
Constructed ==
    /\ NoCallYet
    /\ preferred_time_str = NullTime
    /\ api_key = TRUE
    /\ credentials_json = TRUE
    /\ token_json = "valid"
    /\ google = Google(TRUE, TRUE, TRUE)

\* no call made yet, and a calendar that holds no event
Idle == Constructed /\ calendar = <<>>

\* the start-date correction of the service, for every today of the years
InitServiceDates ==
    /\ today \in Days
    /\ program = "service"
    /\ Idle
    /\ response_text = <<>>

\* one call per run
NextServiceDates ==
    /\ op = "none"
    /\ GenerateStructuredPlan(DateRequests(today), DateResponses(today))

SpecServiceDates == InitServiceDates /\ [][NextServiceDates]_vars

\* the start-date correction of main_cli and of roughs, for every today of
\* the years: one chat turn that goes to the model, or one call
InitNextMonthDates ==
    /\ today \in Days
    /\ program \in {"main_cli", "roughs"}
    /\ Idle
    /\ response_text = <<>>

NextNextMonthDates ==
    /\ op = "none"
    /\ \/ CliTurn({PlainInput}, DateResponses(today))
       \/ RoughsGenerateStructuredPlan(DateRequests(today), DateResponses(today))

SpecNextMonthDates == InitNextMonthDates /\ [][NextNextMonthDates]_vars

\* the start-date correction of fast, for every today of the years: one
\* chat turn that goes to the model
InitChatDates ==
    /\ today \in Days
    /\ program = "fast"
    /\ Idle
    /\ response_text = <<>>

NextChatDates ==
    /\ op = "none"
    /\ ChatTurn({PlainInput}, DateResponses(today))

SpecChatDates == InitChatDates /\ [][NextChatDates]_vars

\* the calls of the service on one day, for every plan of the model
InitServicePlans ==
    /\ today = SomeDay
    /\ program = "service"
    /\ Idle
    /\ response_text = <<>>

NextServicePlans ==
    /\ op = "none"
    /\ \/ GenerateStructuredPlan(ServiceRequests(today), ServicePlans(today))
       \/ HandleChatMessage({ NoPlan(o, FALSE) : o \in {"exception", "text"} })

SpecServicePlans == InitServicePlans /\ [][NextServicePlans]_vars

\* an event the user's calendar holds before the program starts
EarlierEvent ==
    Event(Combine(AddDays(SomeDay, -1), TimeOfDay(19, 0)),
          Combine(AddDays(SomeDay, -1), TimeOfDay(20, 0)))

\* one direct calendar call of the service or of the chat, on a calendar
\* that is empty or holds an earlier event
InitCalendarCalls ==
    /\ today = SomeDay
    /\ program \in {"service", "fast"}
    /\ Constructed
    /\ calendar \in {<<>>, <<EarlierEvent>>}
    /\ response_text = <<>>

NextCalendarCalls ==
    /\ op = "none"
    /\ \/ AddPlanToCalendar(TaskLists)
       \/ CreateCalendarEvents(ChatPlans)

SpecCalendarCalls == InitCalendarCalls /\ [][NextCalendarCalls]_vars

\* the prompt loops of the two CLIs, turn after turn, and the calls of the
\* service
InitTurns ==
    /\ today = SomeDay
    /\ program \in {"service", "main_cli", "fast"}
    /\ Idle
    /\ response_text = <<>>

NextTurns ==
    \/ CliTurn(TurnInputs, TurnResponses(today))
    \/ ChatTurn(TurnInputs, TurnResponses(today))
    \/ GenerateStructuredPlan({Request(3, strftime(today), Num(3))}, TurnResponses(today))
    \/ HandleChatMessage({ NoPlan(o, FALSE) : o \in {"exception", "text"} })

SpecTurns == InitTurns /\ [][NextTurns]_vars

\* the preferred times handed to the parser: None, the empty string, a value
\* that is no string, and every text the parser can tell apart: with or
\* without a number, minutes after ':' or '.', am or pm, a time-of-day word
PreferredTimes ==
    { NullTime, PrefTime("empty", -1, "", -1, "", "none"),
      PrefTime("num", -1, "", -1, "", "none") }
    \cup { PrefTime("str", hr, "", -1, ampm, kw) :
              hr \in -1..MaxHour, ampm \in {"", "am", "pm"},
              kw \in {"none", "morning", "afternoon", "evening", "night"} }
    \cup { PrefTime("str", hr, sep, mi, ampm, kw) :
              hr \in 0..MaxHour, sep \in {":", "."}, mi \in 0..MaxMinute,
              ampm \in {"", "am", "pm"}, kw \in {"none", "evening"} }

\* the preferred-time parser, called once on every preferred time
InitPreferredTime ==
    /\ today = SomeDay
    /\ program \in {"service", "main_cli"}
    /\ NoCallYet
    /\ preferred_time_str \in PreferredTimes
    /\ api_key = TRUE
    /\ credentials_json = TRUE
    /\ token_json = "valid"
    /\ google = Google(TRUE, TRUE, TRUE)
    /\ calendar = <<>>
    /\ response_text = <<>>

NextPreferredTime ==
    /\ op = "none"
    /\ ParsePreferredTimeCall

SpecPreferredTime == InitPreferredTime /\ [][NextPreferredTime]_vars

\* the files and answers the start of a program may find
TokenFiles == {"absent", "valid", "expired", "unusable", "malformed"}

Googles == { Google(r, f, b) : r \in BOOLEAN, f \in BOOLEAN, b \in BOOLEAN }

\* Google answering everything, refusing refresh and flow, and failing build()
ApiGoogles == { Google(TRUE, TRUE, TRUE), Google(FALSE, FALSE, TRUE), Google(TRUE, TRUE, FALSE) }

\* the tasks POST /integrate-plan lets through: objects with both times
ApiTaskLists ==
    { [i \in 1..n |-> CalendarTaskAt("timed", i)] : n \in 0..2 }

\* what the model answers to POST /generate-plan: the answers of a turn,
\* and plans whose entry has projects_exercises missing, null or a list
ApiResponses(t) ==
    TurnResponses(t)
    \cup { TurnPlan(strftime(t), Num(1), <<WithProjects(GoodEntry, p)>>) :
             p \in {"absent", "null", "list"} }

\* main_api from its start: the construction, then requests
InitApi ==
    /\ today = SomeDay
    /\ program = "main_api"
    /\ NoCallYet
    /\ preferred_time_str = NullTime
    /\ api_key \in BOOLEAN
    /\ credentials_json \in BOOLEAN
    /\ token_json \in TokenFiles
    /\ google \in ApiGoogles
    /\ calendar = <<>>
    /\ response_text = <<>>

NextApi ==
    \/ ApiStartup
    \/ ApiChatMessage({ NoPlan(o, FALSE) : o \in {"exception", "text"} })
    \/ ApiGeneratePlan({Request(3, strftime(today), Num(3))}, ApiResponses(today))
    \/ ApiIntegratePlan(ApiTaskLists)
    \/ ApiRoot

SpecApi == InitApi /\ [][NextApi]_vars

\* _get_oauth_credentials of the service and of main_cli, for every state of
\* the files and every answer of Google
InitOAuth ==
    /\ today = SomeDay
    /\ program \in {"service", "main_cli"}
    /\ NoCallYet
    /\ preferred_time_str = NullTime
    /\ api_key = TRUE
    /\ credentials_json \in BOOLEAN
    /\ token_json \in TokenFiles
    /\ google \in Googles
    /\ calendar = <<>>
    /\ response_text = <<>>

NextOAuth ==
    /\ op = "none"
    /\ GetOAuthCredentials

SpecOAuth == InitOAuth /\ [][NextOAuth]_vars

\* the JSON extractors, each applied once to a response text
InitJson ==
    /\ today \in {MkDate(BaseYear, 1, 1)}
    /\ program \in {"service", "main_cli", "fast"}
    /\ Idle
    /\ response_text \in ResponseTexts

NextJson ==
    /\ op = "none"
    /\ \/ ExtractValidJsonFromResponse
       \/ ExtractValidJson

SpecJson == InitJson /\ [][NextJson]_vars

-----------------------------------------------------------------------------
(* Claims *)

\* the start date the service corrects: the plan's, else the request's
ServiceGivenStartDate ==
    IF resp.start_date.kind = "absent" THEN req.start_date_str ELSE resp.start_date

\* d is the first Monday strictly after t
IsFirstMondayAfter(d, t) ==
    /\ weekday(d) = 0
    /\ toordinal(t) < toordinal(d)
    /\ toordinal(d) <= toordinal(t) + 7

\* C1: generate_structured_plan replaces a start date that parses as a day
\* before today by the first Monday strictly after today, in the plan's
\* start_date and in the first task's date, and keeps a start date of today
\* or later unchanged.
C1_PastStartBecomesNextMonday ==
    (op = "generate_structured_plan" /\ ret.kind = "ok") =>
        LET p == strptime(ServiceGivenStartDate)
            first == ret.tasks[1].date
        IN  /\ ret.start_date = strftime(first)
            /\ ret.tasks[1].startTime \div 1440 = toordinal(first)
            /\ (p.ok /\ DateLt(p.date, today)) =>
                   (IsFirstMondayAfter(first, today) /\ ~DateLt(first, today))
            /\ (p.ok /\ ~DateLt(p.date, today)) => first = p.date

\* a start date of last week is corrected on a Monday (the correction is a
\* whole week), taken from the request because the plan has none
C1_Witness ==
    /\ op = "generate_structured_plan"
    /\ ret.kind = "ok"
    /\ weekday(today) = 0
    /\ resp.start_date.kind = "absent"
    /\ strptime(req.start_date_str).ok
    /\ DateLt(strptime(req.start_date_str).date, today)
    /\ ret.tasks[1].date = AddDays(today, 7)

\* the start date the model's response gives the CLI
CliGivenStartDate == strptime(resp.start_date)

\* C2: in main_cli, a model start date earlier than today is replaced, in
\* last_parsed_plan_details and in the plan, by a date not earlier than today.
C2_CliPastStartNotBeforeToday ==
    ( /\ program = "main_cli"
      /\ ret.kind = "plan_stored"
      /\ CliGivenStartDate.ok
      /\ DateLt(CliGivenStartDate.date, today) ) =>
        /\ ~DateLt(last_parsed_plan_details.start_date, today)
        /\ last_parsed_plan_data.start_date = strftime(last_parsed_plan_details.start_date)

\* the first day of the calendar month that follows the month of t
FirstOfFollowingMonth(t) ==
    IF t.m = 12 THEN MkDate(t.y + 1, 1, 1) ELSE MkDate(t.y, t.m + 1, 1)

\* the start date roughs corrects: the plan's, else the request's
RoughsGivenStartDate ==
    strptime(IF resp.start_date.kind = "absent" THEN req.start_date_str
             ELSE resp.start_date)

\* C3: an unparseable start date (main_cli), or a past or unparseable one
\* (roughs), is replaced by the first day of the month following today's
\* month, which is never earlier than today, December included.
C3_FallbackIsFirstOfNextMonth ==
    /\ ( /\ program = "main_cli"
         /\ ret.kind = "plan_stored"
         /\ ~CliGivenStartDate.ok ) =>
            /\ last_parsed_plan_details.start_date = FirstOfFollowingMonth(today)
            /\ ~DateLt(last_parsed_plan_details.start_date, today)
    /\ ( /\ program = "roughs"
         /\ ret.kind = "ok"
         /\ (~RoughsGivenStartDate.ok \/ DateLt(RoughsGivenStartDate.date, today)) ) =>
            /\ ret.start_date = strftime(FirstOfFollowingMonth(today))
            /\ ~DateLt(ret.tasks[1].date, today)

\* the start date the model's response gives the chat
ChatGivenStartDate == strptime(resp.start_date)

\* C4: in fast.py, whenever a plan is stored and the model's start date is
\* earlier than today or does not parse, the stored start date lies in the
\* calendar month after today's (the year incremented in December), on the
\* day of the month of the model's date when that day exists in that month and
\* on day 1 otherwise (an unparseable start date has no day), so strictly later
\* than today; a start date of today or later is stored unchanged.
C4_ChatPastStartMovesToNextMonth ==
    (program = "fast" /\ ret.kind = "plan_stored") =>
        LET p == ChatGivenStartDate
            stored == last_parsed_plan_details.start_date
            next == FirstOfFollowingMonth(today)
        IN  /\ last_parsed_plan_details.set /\ last_parsed_plan_data.set
            /\ (~p.ok \/ DateLt(p.date, today)) =>
                   /\ stored.y = next.y
                   /\ stored.m = next.m
                   /\ stored.d = IF p.ok /\ p.date.d <= DaysInMonth(next.y, next.m)
                                 THEN p.date.d ELSE 1
                   /\ DateLt(today, stored)
                   /\ last_parsed_plan_data.start_date = strftime(stored)
            /\ (p.ok /\ ~DateLt(p.date, today)) =>
                   /\ stored = p.date
                   /\ last_parsed_plan_data.start_date = resp.start_date

\* a past date whose day does not exist in the month after today's is stored
\* as day 1 of that month
C4_Witness ==
    /\ program = "fast"
    /\ ret.kind = "plan_stored"
    /\ ChatGivenStartDate.ok
    /\ DateLt(ChatGivenStartDate.date, today)
    /\ ChatGivenStartDate.date.d > DaysInMonth(today.y, today.m + 1)
    /\ last_parsed_plan_details.start_date = MkDate(today.y, today.m + 1, 1)

\* the text holds a well-formed JSON object inside a ```json fenced block
HoldsFencedObject(s) ==
    \E i \in 1..Len(s) : \E e \in (i + 1)..Len(s) :
        /\ s[i] = "J"
        /\ json_loads(SubSeq(s, SkipWs(s, i + 1), e)) = "dict"
        /\ At(s, SkipWs(s, e + 1)) = "T"

\* some part of the text is a JSON object, trailing commas forgiven
HoldsParsableObject(s) ==
    \E i \in 1..Len(s) : \E e \in (i + 1)..Len(s) :
        json_loads(StripCommasBefore(SubSeq(s, i, e), 1, {"}", "]"})) = "dict"

\* C5: _extract_valid_json_from_response returns None or a dict for every
\* response text: None when the text holds no parsable JSON object, and a
\* dict when it holds a well-formed JSON object inside a ```json fenced block.
C5_ExtractReturnsFencedObject ==
    (program \in {"service", "main_cli"} /\ op = "extract") =>
        /\ extracted.kind \in {"dict", "None"}
        /\ ~HoldsParsableObject(response_text) => extracted.kind = "None"
        /\ HoldsFencedObject(response_text) => extracted.kind = "dict"

\* the text is a well-formed JSON object wrapped in a ```json fence
IsWrappedObject(s) ==
    /\ At(s, 1) = "J"
    /\ At(s, Len(s)) = "T"
    /\ json_loads(Slice(s, 2, Len(s) - 1)) = "dict"

\* C6: extract_valid_json returns a dict for every well-formed JSON object
\* wrapped in a ```json fence, whatever its string values contain, and None
\* for a text with no parsable object.
C6_ChatExtractKeepsStringValues ==
    (program = "fast" /\ op = "extract") =>
        /\ extracted.kind \in {"dict", "None"}
        /\ ~HoldsParsableObject(response_text) => extracted.kind = "None"
        /\ IsWrappedObject(response_text) => extracted.kind = "dict"

\* an entry the structuring can turn into a task
IsWellFormedEntry(e) == e.kind = "dict" /\ e.est.k \in {"num", "absent"}

\* the top-level fields of the plan are usable and learningPlan is a list
IsStructurablePlan(rs, rq) ==
    /\ rs.outcome = "json"
    /\ rs.learningPlan.kind = "list"
    /\ rs.duration_days.k \in {"num", "absent"}
    /\ rs.daily_hours.k \in {"num", "absent"}

\* C7: generate_structured_plan skips a malformed entry of learningPlan (not
\* an object, or estimated_time_hours null or no number): the call does not
\* raise and the well-formed entries are still turned into tasks.
C7_MalformedEntriesSkipped ==
    (op = "generate_structured_plan" /\ IsStructurablePlan(resp, req)) =>
        /\ ret.kind /= "raise"
        /\ Len(ret.tasks) =
               Cardinality({ i \in 1..Len(resp.learningPlan.items) :
                               IsWellFormedEntry(resp.learningPlan.items[i]) })

\* an entry create_calendar_events can give a date: an object with a date
\* that parses or with a numeric dayNumber
CanBeDated(e) == e.kind = "dict" /\ (strptime(e.date).ok \/ e.dayNumber.k = "num")

\* the insert calls made for entry i of the list
AttemptsOf(i) == { n \in 1..Len(insert_log) : insert_log[n].k = i }

\* C8: create_calendar_events of fast.py, called with any plan whose
\* learningPlan is a list, returns a status string and never raises; an
\* entry that cannot be dated or is no object causes no insert, and the
\* entries after it are still processed.
C8_CreateEventsReturnsStatus ==
    op = "create_calendar_events" =>
        LET items == args.data.items
        IN  /\ ret.kind = "integrated"
            /\ \A i \in 1..Len(items) : ~CanBeDated(items[i]) => AttemptsOf(i) = {}
            /\ \A i \in 1..Len(items) :
                 (CanBeDated(items[i]) /\ ChatParseHours(args.details.preferred_time) <= 23)
                     => Cardinality(AttemptsOf(i)) = 1

\* the events of the insert calls the calendar accepted, in call order
AcceptedEvents(tasks, log) ==
    LET accepted == SelectSeq(log, LAMBDA a : a.ok)
    IN  [n \in 1..Len(accepted) |->
            Event(tasks[accepted[n].k].startTime, tasks[accepted[n].k].endTime)]

\* C9: add_plan_to_calendar inserts the tasks one at a time in list order;
\* when the insert of task k raises, every later task that has its times is
\* still tried exactly once, and the events inserted before stay in the
\* calendar, each once (nothing is rolled back, nothing tried again).
C9_FailedInsertIsSkippedNoRollback ==
    /\ [](op = "add_plan_to_calendar" =>
            /\ \A n \in 1..Len(insert_log) - 1 : insert_log[n].k < insert_log[n + 1].k
            /\ \A n \in 1..Len(insert_log) :
                 ~insert_log[n].ok =>
                    \A j \in (insert_log[n].k + 1)..Len(args.tasks) :
                        args.tasks[j].kind = "timed" => Cardinality(AttemptsOf(j)) = 1)
    /\ [][op' = "add_plan_to_calendar" =>
            calendar' = calendar \o AcceptedEvents(args'.tasks, insert_log')]_vars

\* an earlier event, an insert that succeeds, one that raises and one that
\* succeeds after it
C9_Witness ==
    /\ op = "add_plan_to_calendar"
    /\ Len(insert_log) = 3
    /\ insert_log[1].ok /\ ~insert_log[2].ok /\ insert_log[3].ok
    /\ Len(calendar) = 3
    /\ calendar[1] = EarlierEvent

\* C10: a CLI turn and a service call make at most one model call: none
\* when the turn is an exit, an integration command or a clarification, one
\* otherwise, also when the call fails.
C10_AtMostOneModelCall ==
    /\ model_calls \in {0, 1}
    /\ op \in {"exit", "integrate", "clarify"} => model_calls = 0
    /\ op \in {"send_message", "handle_chat_message", "generate_structured_plan"}
          => model_calls = 1

\* a call of the service whose model call raised
C10_Witness ==
    /\ op = "generate_structured_plan"
    /\ resp.outcome = "exception"
    /\ model_calls = 1

\* every entry of a learningPlan that is a list can be structured
HasWellFormedEntries(lp) ==
    lp.kind = "list" => \A i \in 1..Len(lp.items) : IsWellFormedEntry(lp.items[i])

\* C11: generate_structured_plan never raises: whatever the model call gives
\* (an exception, text without JSON, a plan whose duration_days or
\* daily_hours is null or no number, a plan whose learningPlan is no list),
\* it returns (None, message) or (tasks, text).
C11_GenerateNeverRaises ==
    (op = "generate_structured_plan" /\ HasWellFormedEntries(resp.learningPlan)) =>
        ret.kind \in {"ok", "error"}

\* C12: the prompt loop of main_cli ends only when the user enters 'exit':
\* after every model response and every model-call exception the turn ends
\* with a message and the loop prompts again.
C12_CliLoopEndsOnlyOnExit ==
    program = "main_cli" =>
        /\ ret.kind /= "raise"
        /\ ~running => op = "exit"

\* C13: when the construction of the service fails at the start of
\* main_api, planner_service_instance stays None, every POST endpoint
\* answers 503 without a model or calendar call, and GET / answers 200 with
\* service_status 'unavailable (startup error)'.
C13_StartupFailureGives503 ==
    (program = "main_api" /\ startup_error \notin {"pending", "none"}) =>
        /\ planner_service_instance = "None"
        /\ op \in {"chat-message", "generate-plan", "integrate-plan"} =>
              /\ status_code = 503
              /\ model_calls = 0
              /\ insert_calls = 0
              /\ calendar = <<>>
        /\ op = "root" =>
              /\ status_code = 200
              /\ ret.msg = "unavailable (startup error)"

\* credentials.json was missing at the start and a plan is asked for
C13_Witness ==
    /\ program = "main_api"
    /\ startup_error = "FileNotFoundError"
    /\ op = "generate-plan"
    /\ status_code = 503

\* the parser has been called on the preferred time
TimeParsed == op = "_parse_preferred_time_to_datetime_time"

\* the hour the parser reads from a text with a number, before its range check
HourRead(t) ==
    IF t.ampm = "pm" /\ 1 <= t.hr /\ t.hr < 12 THEN t.hr + 12
    ELSE IF t.ampm = "am" /\ t.hr = 12 THEN 0
    ELSE t.hr

\* C14: _parse_preferred_time_to_datetime_time returns a valid time of day
\* for every input, and 09:00 when the input is None, empty, no string, has
\* neither a number nor a recognised word, or names an hour above 23 or a
\* minute above 59.
C14_ParserReturnsValidTime ==
    TimeParsed =>
        LET t == preferred_time_str
        IN  /\ parsed_time \in 0..(24 * 60 - 1)
            /\ t.kind /= "str" => parsed_time = 9 * 60
            /\ (t.kind = "str" /\ t.hr < 0 /\ t.kw = "none") => parsed_time = 9 * 60
            /\ (t.kind = "str" /\ t.hr >= 0 /\ (HourRead(t) > 23 \/ t.mi > 59))
                   => parsed_time = 9 * 60

\* a text that names hour 25, with an evening in it
C14_Witness ==
    /\ TimeParsed
    /\ preferred_time_str.kind = "str"
    /\ preferred_time_str.hr = 25
    /\ preferred_time_str.kw = "evening"
    /\ parsed_time = 9 * 60

\* C15: when create_calendar_events of fast.py cannot turn the preferred
\* time into a valid time of day (an hour above 23), the events are scheduled
\* at 09:00 and are still inserted.
C15_InvalidTimeFallsBackToNine ==
    ( /\ op = "create_calendar_events"
      /\ ret.kind = "integrated"
      /\ ChatParseHours(args.details.preferred_time) > 23 ) =>
        \A i \in 1..Len(args.data.items) :
            CanBeDated(args.data.items[i]) => Cardinality(AttemptsOf(i)) = 1

\* the programs with a prompt loop
IsCliLoop == program \in {"main_cli", "fast"}

\* the line u is an ambiguous early input for the loop whose history has h entries
IsAmbiguousEarly(u, h) ==
    IF program = "main_cli" THEN h <= 4 /\ u.ambiguous /\ ~u.explicit
    ELSE h <= 2 /\ u.ambiguous_word /\ ~u.explicit

\* C16: each line of a CLI loop goes to exactly one handler in fixed
\* priority: 'exit' ends the session with no model or calendar call; else a
\* line with an integration keyword is an integration command; else an
\* ambiguous early line gets a clarification; else the line goes to the
\* model. A line with an integration keyword never reaches the model and
\* never changes the chat history.
C16_HandlersInFixedPriority ==
    [][IsCliLoop =>
          LET u == inp'
          IN  /\ op' \in {"exit", "integrate", "clarify", "send_message"}
              /\ u.is_exit <=> op' = "exit"
              /\ op' = "exit" =>
                    /\ ~running'
                    /\ model_calls' = 0 /\ insert_calls' = 0
                    /\ calendar' = calendar
              /\ (~u.is_exit /\ u.integrate) <=> op' = "integrate"
              /\ op' = "integrate" => (model_calls' = 0 /\ history' = history)
              /\ (~u.is_exit /\ ~u.integrate /\ IsAmbiguousEarly(u, history))
                    <=> op' = "clarify"
              /\ op' = "send_message" => model_calls' = 1]_vars

\* a line with an integration keyword and an ambiguous word ('schedule it'),
\* typed as the first line
C16_Witness ==
    /\ IsCliLoop
    /\ op = "integrate"
    /\ inp.ambiguous /\ inp.ambiguous_word
    /\ history = 2
    /\ model_calls = 0

\* a plan is stored: both fields the integration handlers test are set
PlanStored == last_parsed_plan_data.set /\ last_parsed_plan_details.set

\* C17: in both CLI loops an integration command given while a plan is
\* stored makes one pass over the plan (at most one insert call per entry)
\* and leaves no plan stored, whatever the number of events inserted; an
\* integration command given while no plan is stored makes no insert call
\* and leaves the calendar as it was.
C17_IntegrationClearsStoredPlan ==
    [][(IsCliLoop /\ op' = "integrate") =>
          /\ ~PlanStored'
          /\ last_parsed_plan_data' = NoPlanData
          /\ last_parsed_plan_details' = NoPlanDetails
          /\ running'
          /\ IF PlanStored
             THEN /\ insert_calls' <= Len(last_parsed_plan_data.items)
                  /\ Len(calendar') <= Len(calendar) + insert_calls'
             ELSE /\ insert_calls' = 0
                  /\ calendar' = calendar]_vars

\* an integration pass over a stored plan of two entries has just inserted
\* nothing, and the plan is gone
C17_Witness ==
    /\ IsCliLoop
    /\ op = "integrate"
    /\ insert_calls = 2
    /\ calendar = <<>>
    /\ ret.msg = IntegrationMessage(0)
    /\ ~PlanStored

\* _get_oauth_credentials has just been called
OAuthCalled == op' = "_get_oauth_credentials"

\* the part of the contract of _get_oauth_credentials that does not depend
\* on credentials.json: a valid token is returned untouched, and a normal
\* return leaves a token.json behind
OAuthValidAndReturn ==
    /\ token_json = "valid" =>
          /\ oauth_calls'.refreshes = 0
          /\ oauth_calls'.flows = 0
          /\ oauth_calls'.writes = 0
          /\ token_json' = token_json
    /\ ret'.kind = "creds" => token_json' /= "absent"

\* what a call that finds an expired token with a refresh token does: one
\* refresh, and after a successful one a write and no interactive flow
OAuthRefreshedOnce ==
    /\ oauth_calls'.refreshes = 1
    /\ google.refresh_ok =>
          /\ ret'.kind = "creds"
          /\ oauth_calls'.writes = 1
          /\ oauth_calls'.flows = 0
          /\ token_json' = "valid"

\* C18 as stated: in _get_oauth_credentials of planner_service and main_cli
\* a valid token.json means no refresh, no interactive flow and no write;
\* an expired token with a refresh token means exactly one refresh and, when
\* it succeeds, a write of token.json and no interactive flow; after a
\* normal return token.json exists.
C18_AsStated ==
    [][OAuthCalled =>
          /\ OAuthValidAndReturn
          /\ token_json = "expired" => OAuthRefreshedOnce]_vars

\* C18 amended: the same, where the refresh of an expired token is promised
\* by planner_service only when credentials.json exists (it raises
\* FileNotFoundError before it reads token.json otherwise).
C18_TokenReusedOrRefreshedOnce ==
    [][OAuthCalled =>
          /\ OAuthValidAndReturn
          /\ (token_json = "expired" /\ (program = "service" => credentials_json))
                => OAuthRefreshedOnce]_vars

\* the service has refreshed an expired token and saved it
C18_Witness ==
    /\ program = "service"
    /\ op = "_get_oauth_credentials"
    /\ ret.kind = "creds"
    /\ oauth_calls = OAuthCalls(1, 0, 1, 0)
    /\ token_json = "valid"
    /\ credentials_json

\* the preferred time is a text that names an hour of the day, with or
\* without minutes of the hour
NamesClockTime(t) ==
    /\ t.kind = "str"
    /\ t.hr \in 0..23
    /\ t.mi \in -1..59

\* C19: the preferred-time parser of planner_service and main_cli maps a
\* text that names a clock time as follows: 'H pm' with 1 <= H <= 11 to hour
\* H + 12, '12 am' to hour 0, '12 pm' to hour 12, a bare or am hour H to hour
\* H, 'H:MM' or 'H.MM' to minute MM (minute 0 without MM); a text without
\* digits is mapped by its word, morning to 09:00, afternoon to 14:00,
\* evening or night to 19:00; a text with a number and a word is resolved by
\* the number.
C19_ParserMapsClockTimesAndWords ==
    TimeParsed =>
        LET t == preferred_time_str
            hour == parsed_time \div 60
            minute == parsed_time % 60
        IN  /\ NamesClockTime(t) =>
                  /\ (t.ampm = "pm" /\ 1 <= t.hr /\ t.hr <= 11) => hour = t.hr + 12
                  /\ (t.ampm = "am" /\ t.hr = 12) => hour = 0
                  /\ (t.ampm = "pm" /\ t.hr = 12) => hour = 12
                  /\ (t.ampm = "" \/ (t.ampm = "am" /\ t.hr /= 12)) => hour = t.hr
                  /\ minute = (IF t.mi >= 0 THEN t.mi ELSE 0)
            /\ (t.kind = "str" /\ t.hr < 0) =>
                  /\ t.kw = "morning" => parsed_time = TimeOfDay(9, 0)
                  /\ t.kw = "afternoon" => parsed_time = TimeOfDay(14, 0)
                  /\ t.kw \in {"evening", "night"} => parsed_time = TimeOfDay(19, 0)

\* '7:30 in the evening' has been parsed: the number wins and no pm is read
C19_Witness ==
    /\ TimeParsed
    /\ preferred_time_str = PrefTime("str", 7, ":", 30, "", "evening")
    /\ parsed_time = TimeOfDay(7, 30)

\* C20: when generate_structured_plan of the service returns a task list, it
\* has one task per learningPlan entry, in the order of the entries, and
\* task k starts on the corrected start date plus k - 1 days at the parsed
\* preferred time, whatever date the model wrote in entry k.
C20_TaskPerEntryOnConsecutiveDays ==
    (op = "generate_structured_plan" /\ ret.kind = "ok") =>
        LET items == resp.learningPlan.items
            start == ServiceCorrectStartDate(today,
                         IF resp.start_date.kind = "absent" THEN req.start_date_str
                         ELSE resp.start_date)
        IN  /\ ret.start_date = strftime(start)
            /\ Len(ret.tasks) = Len(items)
            /\ \A k \in 1..Len(items) :
                  /\ ret.tasks[k].day_num = GetNum(items[k].dayNumber, Num(k))
                  /\ ret.tasks[k].date = AddDays(start, k - 1)
                  /\ ret.tasks[k].startTime =
                        toordinal(AddDays(start, k - 1)) * 1440
                        + ParsePreferredTime(resp.preferred_time)

\* three tasks returned for a plan whose start date was corrected and whose
\* entries carry other dates, at 21:30
C20_Witness ==
    /\ op = "generate_structured_plan"
    /\ ret.kind = "ok"
    /\ Len(ret.tasks) = 3
    /\ ret.start_date /= resp.start_date
    /\ \A k \in 1..3 :
          /\ strptime(resp.learningPlan.items[k].date).ok
          /\ strptime(resp.learningPlan.items[k].date).date /= ret.tasks[k].date
          /\ ret.tasks[k].startTime % 1440 = TimeOfDay(21, 30)

\* C21: in main_cli, whenever a plan is stored, entry i of its learningPlan
\* (counted from 1) has dayNumber i and the date of the stored start date
\* plus i - 1 days, and the plan's start_date is the start date held in
\* last_parsed_plan_details, after any sequence of turns.
C21_StoredPlanIsRenumberedAndRedated ==
    (program = "main_cli" /\ last_parsed_plan_data.set) =>
        /\ last_parsed_plan_details.set
        /\ last_parsed_plan_data.start_date = strftime(last_parsed_plan_details.start_date)
        /\ \A i \in 1..Len(last_parsed_plan_data.items) :
              /\ last_parsed_plan_data.items[i].dayNumber = Num(i)
              /\ last_parsed_plan_data.items[i].date =
                    strftime(AddDays(last_parsed_plan_details.start_date, i - 1))

\* a plan of two entries has just been stored whose start date was corrected
\* and whose first entry came without dayNumber and date
C21_Witness ==
    /\ program = "main_cli"
    /\ op = "send_message"
    /\ ret.kind = "plan_stored"
    /\ Len(last_parsed_plan_data.items) = 2
    /\ resp.learningPlan.items[1].dayNumber = AbsentNum
    /\ resp.learningPlan.items[1].date = AbsentStr
    /\ resp.start_date /= last_parsed_plan_data.start_date

\* C22: generate_structured_plan of the service never returns an empty task
\* list: an empty learningPlan gives (None, message); and POST /generate-plan
\* answers 400 exactly when the first component is None, and otherwise a
\* response that carries the non-empty task list.
C22_EmptyPlanIs400ElseTaskList ==
    ( /\ program = "main_api"
      /\ op = "generate-plan"
      /\ status_code /= 503
      /\ ret.kind /= "raise" ) =>
        /\ ret.kind \in {"ok", "error"}
        /\ ret.kind = "ok" => ret.tasks /= <<>>
        /\ (resp.learningPlan.kind = "list" /\ resp.learningPlan.items = <<>>)
              => ret.kind = "error"
        /\ status_code = 400 <=> ret.kind = "error"
        /\ ret.kind = "ok" => status_code = 200

\* C23: when add_plan_to_calendar inserts no event although inserts were
\* tried (every insert raised), POST /integrate-plan answers 500 and not a
\* successful response.
C23_NoEventInsertedIs500 ==
    ( /\ program = "main_api"
      /\ op = "integrate-plan"
      /\ status_code /= 503
      /\ insert_calls > 0
      /\ \A i \in 1..Len(insert_log) : ~insert_log[i].ok ) =>
        status_code = 500

\* the number of entries of the chat history of fast.py after its setup
SetupMessages == 2

\* C24: in fast.py a clarification is given only while the history holds
\* nothing but the two setup messages; it appends two entries (the user's
\* line and the clarification) and makes no model call; the history never
\* shrinks and every clarification or answered model call makes it longer,
\* so a clarification is given at most once per session and never after a
\* clarification or a model exchange.
C24_ClarificationOnlyOnFirstExchange ==
    [][program = "fast" =>
          /\ history >= SetupMessages
          /\ history' >= history
          /\ op' = "clarify" =>
                /\ history = SetupMessages
                /\ history' = history + 2
                /\ model_calls' = 0
                /\ insert_calls' = 0
          /\ (op' = "send_message" /\ resp'.outcome /= "exception") =>
                history' = history + 2]_vars

\* the clarification has been given for a line with an ambiguous word
C24_Witness ==
    /\ program = "fast"
    /\ op = "clarify"
    /\ inp.ambiguous_word
    /\ history = SetupMessages + 2
    /\ model_calls = 0

RequiredFieldMissing(rs) ==
    \/ ~rs.skill
    \/ rs.preferred_time.kind = "null"
    \/ rs.daily_hours.k = "absent"
    \/ program = "main_cli" /\ rs.duration_days.k = "absent"
    \/ program = "main_cli" /\ rs.start_date.kind = "absent"

\* the turn that has just ended was a clarification, a failed model call, or
\* a model answer without an acceptable plan
NoAcceptablePlanTurn ==
    \/ op' = "clarify"
    \/ /\ op' = "send_message"
       /\ \/ resp'.outcome \in {"exception", "text"}
          \/ resp'.learningPlan.kind = "absent"
          \/ RequiredFieldMissing(resp')

\* C26: in both CLI loops a clarification turn, a failed model call, and a
\* turn whose model answer holds no acceptable plan (no JSON, no learningPlan,
\* a required top-level field missing) leave last_parsed_plan_data and
\* last_parsed_plan_details as they were.
C26_NoPlanTurnKeepsStoredPlan ==
    [][(IsCliLoop /\ NoAcceptablePlanTurn) =>
          /\ last_parsed_plan_data' = last_parsed_plan_data
          /\ last_parsed_plan_details' = last_parsed_plan_details]_vars

\* the insert calls of the last call that returned without raising
InsertsReturned == { n \in 1..Len(insert_log) : insert_log[n].ok }

\* C27: for add_plan_to_calendar and any pattern of insert successes and
\* failures, the number reported in the message equals the number of insert
\* calls that returned and the length of the link list, whose links follow
\* the order of the tasks; the link list is None exactly when that number is
\* 0; a task without startTime or endTime causes no insert call.
C27_CountLinksAndMessageAgree ==
    (op = "add_plan_to_calendar" /\ ret.kind /= "raise") =>
        /\ ret.count = Cardinality(InsertsReturned)
        /\ ret.count = Len(ret.links.items)
        /\ ret.links.none <=> ret.count = 0
        /\ ret.msg = (IF ret.count > 0 THEN "Successfully added" ELSE "No events were added")
        /\ \A n \in 1..Len(ret.links.items) :
              /\ ret.links.items[n] \in 1..Len(args.tasks)
              /\ \E a \in InsertsReturned : insert_log[a].k = ret.links.items[n]
        /\ \A n \in 1..Len(ret.links.items) - 1 :
              ret.links.items[n] < ret.links.items[n + 1]
        /\ \A k \in 1..Len(args.tasks) :
              args.tasks[k].kind /= "timed" => AttemptsOf(k) = {}

\* three tasks of which the second lacks a time: the first insert raised,
\* the third returned, and one link is handed back
C27_Witness ==
    /\ op = "add_plan_to_calendar"
    /\ ret.kind = "ok"
    /\ Len(args.tasks) = 3
    /\ args.tasks[2].kind = "untimed"
    /\ Len(insert_log) = 2
    /\ ~insert_log[1].ok
    /\ ret.count = 1
    /\ ret.links = Links(<<3>>)

\* C28: every task generate_structured_plan returns ends strictly later than
\* it starts, whatever estimated_time_hours and daily_hours the model wrote,
\* zero and negative numbers included.
C28_TaskEndsAfterItStarts ==
    (op = "generate_structured_plan" /\ ret.kind = "ok") =>
        \A k \in 1..Len(ret.tasks) : ret.tasks[k].endTime > ret.tasks[k].startTime

\* the hour a preferred time written 'H:MM' names, am and pm applied
NamedHour(t) ==
    IF t.ampm = "pm" /\ t.hr < 12 THEN t.hr + 12
    ELSE IF t.ampm = "am" /\ t.hr = 12 THEN 0
    ELSE t.hr

\* C29: when the preferred time handed to create_calendar_events of fast.py
\* is written 'H:MM', every event the call inserts starts at hour H (am and
\* pm applied) and minute MM; '14:30' gives events that start at 14:30.
C29_EventsStartAtHourAndMinute ==
    LET t == args.details.preferred_time
    IN  ( /\ op = "create_calendar_events"
          /\ t.kind = "str" /\ t.sep = ":" /\ t.hr \in 0..23 /\ t.mi \in 0..59
          /\ NamedHour(t) \in 0..23 ) =>
            \A n \in 1..Len(calendar) :
                calendar[n].start % 1440 = TimeOfDay(NamedHour(t), t.mi)

=============================================================================
